---- MODULE Spec2Model ----
(***************************************************************************)
(* State-machine model of the HackerCraft portfolio front end.             *)
(*                                                                         *)
(*   - the class engine (src/js/hackercraft-engine.js): the UIManager      *)
(*     toast queue, driven by showToast calls, the GSAP entry animation    *)
(*     and the two setTimeout callbacks of processToastQueue; the progress *)
(*     state with addXP, unlockAchievement and switchHotbar; SaveManager   *)
(*     and SoundManager;                                                   *)
(*   - the closure module (src/unnamed/part_000): window.createToast,      *)
(*     awardAchievement, the parkour instance made by setupParkour, the    *)
(*     block game and the module's SoundManager.                           *)
(*                                                                         *)
(* Times are in milliseconds.  Lengths of the parkour arena are in         *)
(* thousandths of a pixel and the normalised frame factor dt in            *)
(* thousandths (fixed point, rounded towards minus infinity).              *)
(***************************************************************************)
EXTENDS Integers, Sequences, FiniteSets, TLC

VARIABLES
    \* ---- class engine, UIManager ----
    toastQueue,       \* this.toastQueue: the requests not yet shown
    isShowingToast,   \* this.isShowingToast
    toastContainer,   \* children of #toastContainer, in document order
    timers,           \* callbacks scheduled and not yet run (gsap onComplete, setTimeout)
    enqLog,           \* history: every request, in showToast call order
    shownLog,         \* history: every toast element created, in creation order
    removedLog,       \* history: every toast element removed, in removal order
    sinceShown,       \* stopwatch: ms since the newest toast element was created
    lastGap,          \* sinceShown as read when the newest element was created
    exitRuns,         \* history: processToastQueue calls made by the 500 ms callback
    \* ---- closure module ----
    createToastDefined, \* whether setupToastStack has installed window.createToast
    toastWrap,        \* children of #toastWrap, first child first
    xp,               \* state.xp
    achievements,     \* state.achievements
    keys,             \* state.keys: the keys whose entry is true
    parkourInstance,  \* state.parkourInstance: 0 for null, else the instance's number
    arena,            \* clientWidth and clientHeight of #parkourArena, in px
    insts,            \* the parkour instances made by setupParkour that can still act
    calls,            \* history: how many frame callbacks, destroy() calls and clicks ran
    msound,           \* the module's SoundManager (its closure variables) and state.soundOn
    blocks,           \* the blocks of #blockGameMini and the reveals still to come
    \* ---- class engine, HackercraftEngine ----
    engineState,      \* this.state of the engine
    storage,          \* localStorage: the item 'hackercraft_save'
    esound,           \* this.soundManager: the SoundManager of the class engine
    booted,           \* whether init() has run saveManager.load() and set up the listeners
    threw,            \* history: whether the last call surfaced an exception to its caller
    opLog,            \* history: the last call made on the engine, and how many were made
    parkourCompleted  \* this.parkourCompleted of the UIManager (undefined is FALSE)

tvars == <<toastQueue, isShowingToast, toastContainer, timers, enqLog, shownLog,
           removedLog, sinceShown, lastGap, exitRuns>>

mvars == <<createToastDefined, toastWrap, xp, achievements, keys, parkourInstance,
           arena, insts, calls, msound, blocks>>

evars == <<engineState, storage, esound, booted, threw, opLog, parkourCompleted>>

vars == <<tvars, mvars, evars>>

-----------------------------------------------------------------------------
(* Bounds of the model *)

\* number of showToast calls in one behaviour
MaxToasts == 3
\* by how many time quanta a timer callback may run late
MaxLate == 1

(* Program constants *)

\* gsap.fromTo(..., { duration: 0.5 }) of the entry animation
AnimMs == 500
\* setTimeout(..., 3000): the display interval
DisplayMs == 3000
\* setTimeout(..., 500): the exit-animation interval
ExitMs == 500

\* granularity of the model's clock: every program interval is a multiple of it
Quantum == ExitMs
Late == MaxLate * Quantum
\* the stopwatches stop counting here, above every interval a property compares
StopwatchCap == AnimMs + DisplayMs + ExitMs + (3 * Late) + Quantum

Min(a, b) == IF a < b THEN a ELSE b

\* The (title, description) pairs the callers pass: startGame's welcome toast
\* and addXP's level-up toast, the latter requested more than once.
Messages ==
    { [title |-> "Welcome!", description |-> "Use 1-9 to navigate sections"],
      [title |-> "Level Up!", description |-> "Reached level"] }

-----------------------------------------------------------------------------
(* UIManager: showToast / processToastQueue *)

\* const toast = { title, description, id: Date.now() }.  No code reads id; the
\* model numbers the calls instead, so that two requests with equal texts stay
\* distinguishable in the histories.
NewToast(m, n) == [title |-> m.title, description |-> m.description, id |-> n]

\* this.toastQueue.push(toast)
PushUnshift(q, t) == <<t>> \o q
Push(q, t) == Append(q, t)

\* A toast element of the container: className 'toast showing' / 'toast hiding'.
\* age: ms since it was appended; shownMs: age when it turned to hiding (-1 before).
NewElement(t) == [toast |-> t, cls |-> "showing", age |-> 0, shownMs |-> -1]

\* processToastQueue(), on the values it reads; returns the values it leaves and
\* the toasts it took from the queue (none or one).
ProcessNoGuard(q, showing, cont, tms) ==
    IF q = <<>>
    THEN [q |-> q, showing |-> showing, cont |-> cont, tms |-> tms, shown |-> <<>>]
    ELSE [q |-> Tail(q),
          showing |-> TRUE,
          cont |-> Append(cont, NewElement(Head(q))),
          tms |-> tms \cup {[kind |-> "anim", el |-> Head(q).id, left |-> AnimMs]},
          shown |-> <<Head(q)>>]
ProcessToastQueue(q, showing, cont, tms) ==
    IF showing \/ q = <<>>
    THEN [q |-> q, showing |-> showing, cont |-> cont, tms |-> tms, shown |-> <<>>]
    ELSE [q |-> Tail(q),
          showing |-> TRUE,
          cont |-> Append(cont, NewElement(Head(q))),
          tms |-> tms \cup {[kind |-> "anim", el |-> Head(q).id, left |-> AnimMs]},
          shown |-> <<Head(q)>>]

\* The assignments every caller of processToastQueue makes from its result r.
ApplyProcess(r, fromExit) ==
    /\ toastQueue' = r.q
    /\ isShowingToast' = r.showing
    /\ toastContainer' = r.cont
    /\ timers' = r.tms
    /\ shownLog' = shownLog \o r.shown
    /\ exitRuns' = IF fromExit THEN exitRuns + 1 ELSE exitRuns
    /\ IF r.shown = <<>>
       THEN UNCHANGED <<sinceShown, lastGap>>
       ELSE /\ sinceShown' = 0
            /\ lastGap' = IF shownLog = <<>> THEN -1 ELSE sinceShown

\* showToast(title, description)
ShowToast ==
    /\ Len(enqLog) < MaxToasts
    /\ \E m \in Messages :
         LET t == NewToast(m, Len(enqLog) + 1)
             r == ProcessToastQueue(Push(toastQueue, t), isShowingToast,
                                    toastContainer, timers)
         IN  /\ enqLog' = Append(enqLog, t)
             /\ ApplyProcess(r, FALSE)
    /\ UNCHANGED <<removedLog, mvars, evars>>

\* The element of the container made for toast number n, if it is (still) there.
IndexOf(cont, n) ==
    LET hits == {i \in 1..Len(cont) : cont[i].toast.id = n}
    IN  IF hits = {} THEN 0 ELSE CHOOSE i \in hits : TRUE

RemoveAt(s, i) == SubSeq(s, 1, i - 1) \o SubSeq(s, i + 1, Len(s))

\* onComplete of the entry animation: setTimeout(<dismiss>, 3000)
AnimCompleteEarly(tm) == (timers \ {tm}) \cup {[kind |-> "display", el |-> tm.el, left |-> 0]}
AnimCompleteTimers(tm) ==
    (timers \ {tm}) \cup {[kind |-> "display", el |-> tm.el, left |-> DisplayMs]}

AnimComplete ==
    /\ \E tm \in timers :
         /\ tm.kind = "anim"
         /\ tm.left <= 0
         /\ timers' = AnimCompleteTimers(tm)
    /\ UNCHANGED <<toastQueue, isShowingToast, toastContainer, enqLog, shownLog,
                   removedLog, sinceShown, lastGap, exitRuns, mvars, evars>>

\* The 3000 ms callback: classList.remove('showing'); classList.add('hiding');
\* setTimeout(<remove>, 500)
DisplayTimeout ==
    /\ \E tm \in timers :
         /\ tm.kind = "display"
         /\ tm.left <= 0
         /\ LET i == IndexOf(toastContainer, tm.el)
            IN  toastContainer' =
                  IF i = 0 THEN toastContainer
                  ELSE [toastContainer EXCEPT ![i].cls = "hiding",
                                              ![i].shownMs = toastContainer[i].age]
         /\ timers' = (timers \ {tm}) \cup {[kind |-> "exit", el |-> tm.el, left |-> ExitMs]}
    /\ UNCHANGED <<toastQueue, isShowingToast, enqLog, shownLog, removedLog,
                   sinceShown, lastGap, exitRuns, mvars, evars>>

\* The 500 ms callback, on the timer tm that fired:
\* container.removeChild(toastElement); this.isShowingToast = false;
\* this.processToastQueue().  removeChild throws when the element is no child
\* of the container, and the callback then ends there.
ExitKeepFlag(tm) ==
    LET i == IndexOf(toastContainer, tm.el)
    IN  /\ i # 0
        /\ removedLog' = Append(removedLog, toastContainer[i].toast)
        /\ ApplyProcess(ProcessToastQueue(toastQueue, isShowingToast,
                                          RemoveAt(toastContainer, i), timers \ {tm}),
                        TRUE)
ExitNoRemove(tm) ==
    /\ UNCHANGED removedLog
    /\ ApplyProcess(ProcessToastQueue(toastQueue, FALSE, toastContainer, timers \ {tm}),
                    TRUE)
ExitNoProcess(tm) ==
    LET i == IndexOf(toastContainer, tm.el)
    IN  /\ i # 0
        /\ removedLog' = Append(removedLog, toastContainer[i].toast)
        /\ toastContainer' = RemoveAt(toastContainer, i)
        /\ timers' = timers \ {tm}
        /\ isShowingToast' = FALSE
        /\ UNCHANGED <<toastQueue, shownLog, sinceShown, lastGap, exitRuns>>
ExitCallback(tm) ==
    LET i == IndexOf(toastContainer, tm.el)
    IN  IF i = 0
        THEN /\ timers' = timers \ {tm}
             /\ UNCHANGED <<toastQueue, isShowingToast, toastContainer, shownLog,
                            removedLog, sinceShown, lastGap, exitRuns>>
        ELSE /\ removedLog' = Append(removedLog, toastContainer[i].toast)
             /\ ApplyProcess(ProcessToastQueue(toastQueue, FALSE,
                                               RemoveAt(toastContainer, i), timers \ {tm}),
                             TRUE)

ExitTimeout ==
    /\ \E tm \in timers :
         /\ tm.kind = "exit"
         /\ tm.left <= 0
         /\ ExitCallback(tm)
    /\ UNCHANGED <<enqLog, mvars, evars>>

\* Time passes by one quantum.  A callback runs no earlier than its delay and at
\* most Late after it.
Tick ==
    /\ \A tm \in timers : tm.left > -Late
    /\ timers' = {[tm EXCEPT !.left = tm.left - Quantum] : tm \in timers}
    /\ toastContainer' =
         [i \in 1..Len(toastContainer) |->
            [toastContainer[i] EXCEPT !.age = Min(StopwatchCap, toastContainer[i].age + Quantum)]]
    /\ sinceShown' = Min(StopwatchCap, sinceShown + Quantum)
    /\ UNCHANGED <<toastQueue, isShowingToast, enqLog, shownLog, removedLog,
                   lastGap, exitRuns, mvars, evars>>

\* State after new UIManager(engine).
InitToast ==
    /\ toastQueue = <<>>
    /\ isShowingToast = FALSE
    /\ toastContainer = <<>>
    /\ timers = {}
    /\ enqLog = <<>>
    /\ shownLog = <<>>
    /\ removedLog = <<>>
    /\ sinceShown = 0
    /\ lastGap = -1
    /\ exitRuns = 0

NextToast ==
    \/ ShowToast
    \/ AnimComplete
    \/ DisplayTimeout
    \/ ExitTimeout
    \/ Tick

-----------------------------------------------------------------------------
(* Closure module: toasts, achievements, parkour *)

\* Bounds of the module's model
\* parkour instances alive at a time
MaxInst == 2
\* frame callbacks run in one behaviour, over all instances
MaxTicks == 3
\* destroy() calls made through a handle in one behaviour
MaxDestroy == 2
\* clicks on the Multiplayer button in one behaviour
MaxClicks == 1
\* blocks of the block game (the page makes 12), and clicks on one block
\* element
MaxBlocks == 2
MaxBlockClicks == 3

\* Fixed point: thousandths of a pixel, thousandths of the frame factor.
Scale == 10 * 100
\* player = { ..., w: 20, h: 20, speed: 2.9, jumpStrength: 7.2 }
PlayerW == 20 * Scale
PlayerH == 20 * Scale
Speed == (29 * Scale) \div 10
JumpStrengthNone == (0 * Scale) \div 10
JumpStrength == (72 * Scale) \div 10
\* player.vy += 0.45 * dt
Gravity == (45 * Scale) \div 100
\* playerBottom < py + 16
LandBandThin == 1 * Scale
LandBand == 16 * Scale
\* Math.min(32, now - last) / 16.666, in microseconds
ClampUs == 32 * Scale
FrameUs == 16666
\* state.xp = Math.min(100, state.xp + 15)
XpMax == 100
XpAward == 15
\* state = { ..., xp: 60, ... }
XpStart == 60

\* now - last of a frame callback, in microseconds: a 60 Hz frame, and a gap
\* longer than the clamp.
ElapsedUs == {16666, 33333}

\* (clientWidth, clientHeight) of the arena in px: an arena that is not laid
\* out (display: none), and a narrow one, whose win threshold lies on the
\* first platform.
ArenaSizes == { [w |-> 0, h |-> 0], [w |-> 240, h |-> 160] }

\* The keys pressed here, as keyHandler stores them (ev.key.toLowerCase()):
\* move right and jump.
KeyNames == {"d", "w"}

\* const h = arena.clientHeight || 320
SetupH(a) == IF a.h = 0 THEN 320 ELSE a.h

\* const platforms = [...], from the height h read at setup
Platforms(h) ==
    << [x |-> 10 * Scale,  y |-> (h - 28) * Scale,  w |-> 120 * Scale, h |-> 20 * Scale],
       [x |-> 170 * Scale, y |-> (h - 90) * Scale,  w |-> 90 * Scale,  h |-> 18 * Scale],
       [x |-> 300 * Scale, y |-> (h - 140) * Scale, w |-> 140 * Scale, h |-> 20 * Scale],
       [x |-> 500 * Scale, y |-> (h - 200) * Scale, w |-> 100 * Scale, h |-> 18 * Scale],
       [x |-> 660 * Scale, y |-> (h - 260) * Scale, w |-> 80 * Scale,  h |-> 18 * Scale] >>

\* const dt = Math.min(32, now - last) / 16.666, rounded to the nearest thousandth
DtNoClamp(elapsed) == ((elapsed * Scale) + (FrameUs \div 2)) \div FrameUs
DtOf(elapsed) == ((Min(ClampUs, elapsed) * Scale) + (FrameUs \div 2)) \div FrameUs

\* One platform of the collision pass, on the body b = [y, vy, onGround] at x.
CollideNoGround(b, x, pl) ==
    LET playerBottom == b.y + PlayerH
    IN  IF /\ x + PlayerW > pl.x
           /\ x < pl.x + pl.w
           /\ playerBottom >= pl.y
           /\ playerBottom < pl.y + LandBand
           /\ b.vy >= 0
        THEN [y |-> pl.y - PlayerH, vy |-> 0, onGround |-> b.onGround]
        ELSE b
CollideOne(b, x, pl) ==
    LET playerBottom == b.y + PlayerH
    IN  IF /\ x + PlayerW > pl.x
           /\ x < pl.x + pl.w
           /\ playerBottom >= pl.y
           /\ playerBottom < pl.y + LandBand
           /\ b.vy >= 0
        THEN [y |-> pl.y - PlayerH, vy |-> 0, onGround |-> TRUE]
        ELSE b

\* platforms.forEach(...), from platform number i on
RECURSIVE CollideFrom(_, _, _, _)
CollideFrom(b, x, pls, i) ==
    IF i > Len(pls) THEN b ELSE CollideFrom(CollideOne(b, x, pls[i]), x, pls, i + 1)

\* if (up && player.onGround)
JumpAnywhere(up, onGround) == up
JumpIntent(up, onGround) == up /\ onGround

\* step(now) up to the collision pass: intent to velocity, gravity, the jump,
\* and the move.  p: the body; ks: state.keys; dt: the frame factor.
Moved(p, ks, dt) ==
    LET left  == "a" \in ks
        right == "d" \in ks
        up    == "w" \in ks
        vx1   == IF left THEN -Speed ELSE IF right THEN Speed ELSE 0
        vy1   == p.vy + ((Gravity * dt) \div Scale)
        jump  == JumpIntent(up, p.onGround)
        vy2   == IF jump THEN -JumpStrength ELSE vy1
    IN  [x |-> p.x + ((vx1 * dt * 6) \div Scale),
         y |-> p.y + ((vy2 * dt) \div Scale),
         vx |-> vx1, vy |-> vy2, jumped |-> jump]

\* The collision pass on the body as moved: player.onGround = false, then
\* platforms.forEach(...).  h: the height read at setup.
Collided(m, h) ==
    CollideFrom([y |-> m.y, vy |-> m.vy, onGround |-> FALSE], m.x, Platforms(h), 1)

\* if (player.x < 0) player.x = 0;
\* if (player.x + player.w > (arena.clientWidth - 6)) player.x = ...
\* w: arena.clientWidth in px.
ArenaBounds(x, w) ==
    LET x2 == IF x < 0 THEN 0 ELSE x
    IN  IF x2 + PlayerW > (w - 6) * Scale
        THEN (w * Scale) - PlayerW - (6 * Scale) ELSE x2

\* The physics of step(now): the body p after the tick, and what the tick met.
\* ks: state.keys; dt: the frame factor; a: the arena's client size now;
\* h: the height read at setup.
StepBody(p, ks, dt, a, h) ==
    LET m     == Moved(p, ks, dt)
        c     == Collided(m, h)
        x3    == ArenaBounds(m.x, a.w)
        fell  == c.y > a.h * Scale
        x4    == IF fell THEN 20 * Scale ELSE x3
        y4    == IF fell THEN (a.h - 48) * Scale ELSE c.y
        vy4   == IF fell THEN 0 ELSE c.vy
    IN  [body |-> [x |-> x4, y |-> y4, vx |-> m.vx, vy |-> vy4, onGround |-> c.onGround],
         jumped |-> m.jumped,
         fell |-> fell,
         won |-> x4 > (a.w - 120) * Scale]

\* window.createToast(title, msg): wrap.prepend(node)
CreateToast(wrap, title) == <<title>> \o wrap

\* (window.createToast || ((t,m)=>{}))(title, ...): the callers whose fallback
\* does nothing
ToastTwice(wrap, title) ==
    IF createToastDefined THEN CreateToast(CreateToast(wrap, title), title) ELSE wrap
ToastOrNothing(wrap, title) ==
    IF createToastDefined THEN CreateToast(wrap, title) ELSE wrap

\* awardAchievement(id, title, msg), on the set of achievements and the wrap;
\* its fallback prepends a node as createToast does.
AwardAchievement(ach, wrap, id, title) ==
    IF id \in ach
    THEN [ach |-> ach, wrap |-> wrap]
    ELSE [ach |-> ach \cup {id}, wrap |-> CreateToast(wrap, title)]

\* No instance made yet under this number.
NoInst ==
    [made |-> FALSE, x |-> 0, y |-> 0, vx |-> 0, vy |-> 0, onGround |-> FALSE,
     running |-> FALSE, frame |-> 0, listening |-> FALSE,
     ticks |-> 0, wins |-> 0, destroyCalls |-> 0, ticksAfterDestroy |-> 0,
     jumps |-> 0, falls |-> 0, last |-> 0]

\* setupParkour(): the player, the key handlers registered, running = true and
\* the first requestAnimationFrame(step).  The counters are history: the frame
\* callbacks run, the runs of the victory block, the destroy() calls, the
\* frame callbacks run after a destroy() call, the jumps made since the jump
\* key last went down, and the runs of the fall block.  frame: the frame
\* callbacks requested and not yet run.  last: the closure's
\* `last`, in microseconds from the performance.now() setupParkour read.
NewInst(a) ==
    [NoInst EXCEPT !.made = TRUE, !.x = 20 * Scale, !.y = (SetupH(a) - 48) * Scale,
                   !.running = TRUE, !.frame = 1, !.listening = TRUE]

\* destroy(): running = false; removeEventListener('keydown'/'keyup', keyHandler)
DestroyToggle(r) == [r EXCEPT !.running = ~r.running, !.listening = FALSE]
DestroyKeepKeys(r) == [r EXCEPT !.running = FALSE]
DestroyInst(r) == [r EXCEPT !.running = FALSE, !.listening = FALSE]

Destroyed(r) == [DestroyInst(r) EXCEPT !.destroyCalls = r.destroyCalls + 1]

\* An instance that can act no more: its loop has stopped, no frame callback
\* is pending and its key handlers are gone.  Its closure is garbage (destroy()
\* through a handle still held changes nothing of it), and the table reuses its
\* number.
Dead(r) == r.made /\ ~r.running /\ r.frame = 0 /\ ~r.listening

\* if (state.parkourInstance && typeof state.parkourInstance.destroy === 'function')
\*     state.parkourInstance.destroy()
PreviousKept == insts
PreviousDestroyed ==
    IF parkourInstance = 0 THEN insts
    ELSE [insts EXCEPT ![parkourInstance] = Destroyed(insts[parkourInstance])]

FreeIn(tbl) == {n \in 1..MaxInst : ~tbl[n].made \/ Dead(tbl[n])}

\* The number the next instance gets: the lowest one free after the destroy.
FreeInst ==
    {n \in FreeIn(PreviousDestroyed) : \A m \in FreeIn(PreviousDestroyed) : n <= m}

\* The instances after the destroy and
\* `state.parkourInstance = setupParkour('parkourArena')`, the new one numbered n.
Restarted(n) == [PreviousDestroyed EXCEPT ![n] = NewInst(arena)]

\* AudioContexts and playbacks counted up to
MaxContexts == 3
MaxPlays == 2

\* The keys of SOUND_FILES
SoundFiles == {"click", "block", "xp", "achievement", "open", "hover", "pause", "page"}

\* An init() call made for itself, with no playback waiting for it
NoSound == "none"

\* The module's SoundManager as the closure makes it.  ctx: whether it is set
\* (not null); soundOn: state.soundOn; waiting: the init() calls that have
\* not resolved yet, each by the name its caller will play when it resolves
\* (a name waits once); contexts, plays: history, the AudioContexts made and
\* the playbacks started; backend: whether the browser has an AudioContext;
\* assets: the sound files that can be fetched and decoded.  The buffers are
\* read only once an init() has resolved, when they are the assets.
NewModuleSound(backend, assets) ==
    [inited |-> FALSE, ctx |-> FALSE, soundOn |-> TRUE, waiting |-> {},
     contexts |-> 0, plays |-> 0, backend |-> backend, assets |-> assets]

\* init() up to its await, called by a caller that plays name once it resolves:
\* it returns when inited; else the AudioContext and the gains are made anew
\* and the loads start, or the constructor throws and the catch logs it, which
\* resolves the promise with no buffer loaded.
SoundInit(ms, name) ==
    IF ms.inited \/ ~ms.backend THEN ms
    ELSE [ms EXCEPT !.ctx = TRUE, !.contexts = Min(MaxContexts, @ + 1),
                    !.waiting = @ \cup {name}]

\* _playBuffer(buffers[name], opts) behind `if (buffers[name])`
PlayBuffer(ms, name) ==
    IF name \in ms.assets /\ ms.ctx
    THEN [ms EXCEPT !.plays = Min(MaxPlays, @ + 1)] ELSE ms

\* The init() call waiting under name resolves: inited = true, and the then
\* callback of its caller plays the name.
SoundInitDone(ms, name) ==
    PlayBuffer([ms EXCEPT !.inited = TRUE, !.waiting = @ \ {name}], name)

\* SoundManager.play(name)
ModulePlay(ms, name) ==
    IF ~ms.inited THEN SoundInit(ms, name)
    ELSE IF ~ms.soundOn THEN ms
    ELSE PlayBuffer(ms, name)

\* The SoundManager.play calls of a handler, in order
RECURSIVE ModulePlayAll(_, _)
ModulePlayAll(ms, names) ==
    IF names = <<>> THEN ms
    ELSE ModulePlayAll(ModulePlay(ms, Head(names)), Tail(names))

\* The sound of window.createToast, behind (window.createToast || noop)
ToastSound == IF createToastDefined THEN <<"achievement">> ELSE <<>>

\* The sounds of awardAchievement(id, ...): that of its toast, then its own
AwardSounds(ach, id) ==
    IF id \in ach THEN <<>> ELSE ToastSound \o <<"achievement">>

\* A block element just made: not broken, no reveal pending.  clicks and
\* reveals are history: the clicks made on the element, and the runs of the
\* handler's part after its 260 ms wait.  old: the reveals still to come of
\* elements that were in this place and are no longer in the container.
NewBlock(old) ==
    [broken |-> FALSE, timers |-> 0, clicks |-> 0, reveals |-> 0, old |-> old]

\* The block game before setupBlockGame has run: no element can be clicked.
NoBlocks == [i \in 1..MaxBlocks |-> NewBlock(0)]

\* setupBlockGame(): container.innerHTML = '' and new elements; the handler
\* runs that are in their wait go on.
BlockGameSetup(bl) == [i \in 1..MaxBlocks |-> NewBlock(bl[i].old + bl[i].timers)]

\* The click handler up to its await: a broken block returns; else
\* dataset.broken = '1', the sound, and the wait begins.
BlockClickedAgain(b) ==
    [b EXCEPT !.broken = TRUE, !.timers = @ + 1, !.clicks = @ + 1]
BlockClicked(b) ==
    IF b.broken THEN [b EXCEPT !.clicks = @ + 1]
    ELSE [b EXCEPT !.broken = TRUE, !.timers = @ + 1, !.clicks = @ + 1]

\* The click handler after its await: window.createToast?.('Fact', ...), then
\* awardAchievement(`block-${i}`, 'Miner', ...); the names of the achievements
\* are "block-" and the index.
BlockId(i) == "block-" \o ToString(i - 1)
Revealed(ach, wrap, i) ==
    AwardAchievement(ach, ToastOrNothing(wrap, "Fact"), BlockId(i), "Miner")
RevealSounds(ach, i) == ToastSound \o AwardSounds(ach, BlockId(i))

\* Click on block i of the game that startWorldSequence has set up
ClickBlock(i) ==
    /\ "enter-world" \in achievements
    /\ blocks[i].clicks < MaxBlockClicks
    /\ blocks' = [blocks EXCEPT ![i] = BlockClicked(blocks[i])]
    /\ msound' = IF blocks[i].broken THEN msound ELSE ModulePlay(msound, "block")
    /\ UNCHANGED <<createToastDefined, toastWrap, xp, achievements, keys,
                   parkourInstance, arena, insts, calls>>
    /\ UNCHANGED <<tvars, evars>>

\* The 260 ms wait of a click on block i is over.
RevealBlock(i) ==
    /\ blocks[i].timers > 0
    /\ blocks' = [blocks EXCEPT ![i].timers = @ - 1, ![i].reveals = @ + 1]
    /\ LET r == Revealed(achievements, toastWrap, i)
       IN  /\ achievements' = r.ach
           /\ toastWrap' = r.wrap
    /\ msound' = ModulePlayAll(msound, RevealSounds(achievements, i))
    /\ UNCHANGED <<createToastDefined, xp, keys, parkourInstance, arena, insts, calls>>
    /\ UNCHANGED <<tvars, evars>>

\* The same for an element that setupBlockGame has taken out of the container
RevealOld(i) ==
    /\ blocks[i].old > 0
    /\ blocks' = [blocks EXCEPT ![i].old = @ - 1]
    /\ LET r == Revealed(achievements, toastWrap, i)
       IN  /\ achievements' = r.ach
           /\ toastWrap' = r.wrap
    /\ msound' = ModulePlayAll(msound, RevealSounds(achievements, i))
    /\ UNCHANGED <<createToastDefined, xp, keys, parkourInstance, arena, insts, calls>>
    /\ UNCHANGED <<tvars, evars>>

\* window.startParkour()
StartParkour ==
    /\ \E n \in FreeInst :
         /\ insts' = Restarted(n)
         /\ parkourInstance' = n
    /\ UNCHANGED <<createToastDefined, toastWrap, xp, achievements, keys, arena, calls,
                   msound>>
    /\ UNCHANGED <<blocks, tvars, evars>>

\* startWorldSequence(): the 'World Loaded' toast, the 'enter-world'
\* achievement, then the parkour instance is replaced as in startParkour.
StartWorldSequence ==
    /\ \E n \in FreeInst :
         /\ insts' = Restarted(n)
         /\ parkourInstance' = n
    /\ LET r == AwardAchievement(achievements, ToastOrNothing(toastWrap, "World Loaded"),
                                 "enter-world", "World Entered")
       IN  /\ achievements' = r.ach
           /\ toastWrap' = r.wrap
    /\ msound' = ModulePlayAll(SoundInit(msound, NoSound),
                               ToastSound \o AwardSounds(achievements, "enter-world")
                                   \o <<"open">>)
    /\ blocks' = BlockGameSetup(blocks)
    /\ UNCHANGED <<createToastDefined, xp, keys, arena, calls>>
    /\ UNCHANGED <<tvars, evars>>

\* handle.destroy(), by whoever holds the handle setupParkour returned
Destroy(i) ==
    /\ insts[i].made
    /\ calls.destroys < MaxDestroy
    /\ calls' = [calls EXCEPT !.destroys = calls.destroys + 1]
    /\ insts' = [insts EXCEPT ![i] = Destroyed(insts[i])]
    /\ UNCHANGED <<createToastDefined, toastWrap, xp, achievements, keys,
                   parkourInstance, arena, msound>>
    /\ UNCHANGED <<blocks, tvars, evars>>

\* keyHandler(ev) of every instance that is registered: state.keys[k] = true.
\* The key goes down (it was up): a new press, from which the jumps are counted.
KeyDown(k) ==
    /\ \E i \in 1..MaxInst : insts[i].listening
    /\ k \notin keys
    /\ keys' = keys \cup {k}
    /\ insts' = IF k = "w"
                THEN [i \in 1..MaxInst |-> [insts[i] EXCEPT !.jumps = 0]]
                ELSE insts
    /\ UNCHANGED <<createToastDefined, toastWrap, xp, achievements, parkourInstance,
                   arena, calls, msound>>
    /\ UNCHANGED <<blocks, tvars, evars>>

\* keyHandler(ev) on keyup: state.keys[k] = false
KeyUp(k) ==
    /\ \E i \in 1..MaxInst : insts[i].listening
    /\ k \in keys
    /\ keys' = keys \ {k}
    /\ UNCHANGED <<createToastDefined, toastWrap, xp, achievements, parkourInstance,
                   arena, insts, calls, msound>>
    /\ UNCHANGED <<blocks, tvars, evars>>

\* state.xp = Math.min(100, state.xp + 15)
XpNoClamp(x) == x + XpAward
XpAfterWin(x) == Min(XpMax, x + XpAward)

\* running after the victory block (running = false on a win), which is also
\* whether `if (running) requestAnimationFrame(step)` requests the next frame
RunsOn(running, won) == running /\ ~won

\* The frame callbacks `if (running) requestAnimationFrame(step)` adds to the
\* pending ones
RequestedTwice(again) == IF again THEN 2 ELSE 0
Requested(again) == IF again THEN 1 ELSE 0

\* The instance me after a tick of step(now) whose physics gave s, with now
\* the time e after last: last = now.
Ticked(me, s, e) ==
    [me EXCEPT !.x = s.body.x, !.y = s.body.y, !.vx = s.body.vx,
               !.vy = s.body.vy, !.onGround = s.body.onGround,
               !.running = RunsOn(me.running, s.won),
               !.frame = (me.frame - 1) + Requested(RunsOn(me.running, s.won)),
               !.ticks = me.ticks + 1,
               !.wins = me.wins + (IF s.won THEN 1 ELSE 0),
               !.ticksAfterDestroy = me.ticksAfterDestroy
                   + (IF me.destroyCalls > 0 THEN 1 ELSE 0),
               !.jumps = me.jumps + (IF s.jumped THEN 1 ELSE 0),
               !.falls = me.falls + (IF s.fell THEN 1 ELSE 0),
               !.last = me.last + e]

\* The SoundManager.play calls of a tick whose physics gave s, in order
StepSounds(s, ach) ==
    (IF s.jumped THEN <<"click">> ELSE <<>>)
    \o (IF s.fell THEN ToastSound \o <<"page">> ELSE <<>>)
    \o (IF s.won THEN ToastSound \o <<"xp">> \o AwardSounds(ach, "parkour-complete")
        ELSE <<>>)

\* step(now) of instance i, run by the frame callback it had requested.
Step(i) ==
    /\ insts[i].frame > 0
    /\ calls.ticks < MaxTicks
    /\ calls' = [calls EXCEPT !.ticks = calls.ticks + 1]
    /\ \E e \in ElapsedUs :
         LET me   == insts[i]
             s    == StepBody(me, keys, DtOf(e), arena, SetupH(arena))
             w1   == IF s.fell THEN ToastOrNothing(toastWrap, "Parkour") ELSE toastWrap
             w2   == IF s.won THEN ToastOrNothing(w1, "Parkour Complete") ELSE w1
             r    == IF s.won
                     THEN AwardAchievement(achievements, w2, "parkour-complete",
                                           "Parkour Master")
                     ELSE [ach |-> achievements, wrap |-> w2]
         IN  /\ insts' = [insts EXCEPT ![i] = Ticked(me, s, e)]
             /\ xp' = IF s.won THEN XpAfterWin(xp) ELSE xp
             /\ achievements' = r.ach
             /\ toastWrap' = r.wrap
             /\ msound' = ModulePlayAll(msound, StepSounds(s, achievements))
    /\ UNCHANGED <<createToastDefined, keys, parkourInstance, arena>>
    /\ UNCHANGED <<blocks, tvars, evars>>

\* Click on the Multiplayer button: (window.createToast || noop)('Multiplayer', ...)
ClickMultiplayer ==
    /\ calls.clicks < MaxClicks
    /\ calls' = [calls EXCEPT !.clicks = calls.clicks + 1]
    /\ toastWrap' = ToastOrNothing(toastWrap, "Multiplayer")
    /\ msound' = ModulePlayAll(msound, ToastSound \o <<"click">>)
    /\ UNCHANGED <<createToastDefined, xp, achievements, keys, parkourInstance,
                   arena, insts>>
    /\ UNCHANGED <<blocks, tvars, evars>>

\* A toast node's removal (gsap onComplete / setTimeout): node.remove()
ToastExpire ==
    /\ \E i \in 1..Len(toastWrap) : toastWrap' = RemoveAt(toastWrap, i)
    /\ UNCHANGED <<createToastDefined, xp, achievements, keys, parkourInstance,
                   arena, insts, calls, msound>>
    /\ UNCHANGED <<blocks, tvars, evars>>

\* The module after its init(): no parkour instance yet, the SoundManager as
\* the closure made it.
InitModuleWith(defined, sizes, backends, assetSets) ==
    /\ createToastDefined \in defined
    /\ toastWrap = <<>>
    /\ xp = XpStart
    /\ achievements = {}
    /\ keys = {}
    /\ parkourInstance = 0
    /\ arena \in sizes
    /\ insts = [i \in 1..MaxInst |-> NoInst]
    /\ calls = [ticks |-> 0, destroys |-> 0, clicks |-> 0]
    /\ blocks = NoBlocks
    /\ \E b \in backends, a \in assetSets : msound = NewModuleSound(b, a)

\* The module in a browser that has an AudioContext and every sound file
InitModuleAt(defined, sizes) == InitModuleWith(defined, sizes, {TRUE}, {SoundFiles})

InitModule == InitModuleAt(BOOLEAN, ArenaSizes)

\* The parkour game: the calls that make, drive and end instances.
NextModule ==
    \/ StartParkour
    \/ StartWorldSequence
    \/ \E i \in 1..MaxInst : Destroy(i)
    \/ \E k \in KeyNames : KeyDown(k)
    \/ \E k \in KeyNames : KeyUp(k)
    \/ \E i \in 1..MaxInst : Step(i)

\* The block game: the world is entered, blocks are clicked and revealed, and
\* toast nodes go.
NextBlocks ==
    \/ StartWorldSequence
    \/ \E i \in 1..MaxBlocks : ClickBlock(i)
    \/ \E i \in 1..MaxBlocks : RevealBlock(i)
    \/ \E i \in 1..MaxBlocks : RevealOld(i)
    \/ ToastExpire

\* The toast wrap: the callers of createToast and awardAchievement, and the
\* removal of nodes.
NextToastStack ==
    \/ StartWorldSequence
    \/ \E k \in KeyNames : KeyDown(k)
    \/ \E k \in KeyNames : KeyUp(k)
    \/ \E i \in 1..MaxInst : Step(i)
    \/ ClickMultiplayer
    \/ ToastExpire

-----------------------------------------------------------------------------
(* A parkour run under way *)

\* frames of the run that have passed when the model takes it up
MaxHeld == 19

\* An arena laid out at the size setupParkour takes as its fallback.
PlayArena == [w |-> 700, h |-> 320]

\* The instance me after n frame callbacks of step(now), each elapsed e after
\* the one before, with the keys ks held throughout; ok: none of these ticks
\* ran the fall block or the victory block (they changed the body only).
RECURSIVE Held(_, _, _, _, _, _)
Held(me, ok, ks, e, a, n) ==
    IF n = 0 THEN [inst |-> me, ok |-> ok]
    ELSE LET s == StepBody(me, ks, DtOf(e), a, SetupH(a))
         IN  Held(Ticked(me, s, e), ok /\ ~s.fell /\ ~s.won, ks, e, a, n - 1)

\* The module with one run of startParkour() under way in an arena of arenas:
\* the player has held a set of keys of keySets since the start, for up to
\* MaxHeld frames.  calls counts from here on.
InitRunAt(keySets, arenas) ==
    /\ createToastDefined \in BOOLEAN
    /\ toastWrap = <<>>
    /\ xp = XpStart
    /\ achievements = {}
    /\ parkourInstance = 1
    /\ arena \in arenas
    /\ calls = [ticks |-> 0, destroys |-> 0, clicks |-> 0]
    /\ blocks = NoBlocks
    /\ \E ks \in keySets, e \in ElapsedUs, n \in 0..MaxHeld :
         LET r == Held(NewInst(arena), TRUE, ks, e, arena, n)
         IN  /\ r.ok
             /\ keys = ks
             /\ insts = [i \in 1..MaxInst |-> IF i = 1 THEN r.inst ELSE NoInst]
             /\ msound = ModulePlayAll(NewModuleSound(TRUE, SoundFiles),
                                       [j \in 1..r.inst.jumps |-> "click"])

\* The run in the laid-out arena, with the keys of the model
InitRun == InitRunAt(SUBSET KeyNames, {PlayArena})

\* The run goes on: keys and frames.
NextRun ==
    \/ \E k \in KeyNames : KeyDown(k)
    \/ \E k \in KeyNames : KeyUp(k)
    \/ \E i \in 1..MaxInst : Step(i)

\* A run of the player, as the keys held and the frame gap of each frame
\* callback in turn: onto the first platform, a jump and a step right onto the
\* second platform, a jump there, and a step left at the end of the flight,
\* which brings the body down over the first platform.
RouteLegs ==
    << [ks |-> {},    e |-> 16666, n |-> 1],
       [ks |-> {"w"}, e |-> 16666, n |-> 1],
       [ks |-> {},    e |-> 16666, n |-> 1],
       [ks |-> {},    e |-> 33333, n |-> 4],
       [ks |-> {"d"}, e |-> 33333, n |-> 4],
       [ks |-> {"w"}, e |-> 33333, n |-> 1],
       [ks |-> {},    e |-> 33333, n |-> 16],
       [ks |-> {"a"}, e |-> 33333, n |-> 1],
       [ks |-> {},    e |-> 33333, n |-> 3] >>

RECURSIVE Unrolled(_)
Unrolled(legs) ==
    IF legs = <<>> THEN <<>>
    ELSE [j \in 1..Head(legs).n |-> [ks |-> Head(legs).ks, e |-> Head(legs).e]]
         \o Unrolled(Tail(legs))

Route == Unrolled(RouteLegs)

\* The run r = [inst, ok, jumps, ks] after the frame callbacks k..n of the
\* route: each is step(now) with the route's keys, the jump count starting
\* anew when the jump key goes down.  ok: no tick so far ran the fall block or
\* the victory block, where the route is left; jumps: the jumps made; ks: the
\* keys held last.
RECURSIVE Routed(_, _, _)
Routed(r, k, n) ==
    IF k > n \/ ~r.ok THEN r
    ELSE LET t  == Route[k]
             me == IF "w" \in t.ks /\ "w" \notin r.ks
                   THEN [r.inst EXCEPT !.jumps = 0] ELSE r.inst
             s  == StepBody(me, t.ks, DtOf(t.e), PlayArena, SetupH(PlayArena))
         IN  Routed([inst |-> Ticked(me, s, t.e), ok |-> r.ok /\ ~s.fell /\ ~s.won,
                     jumps |-> r.jumps + (IF s.jumped THEN 1 ELSE 0), ks |-> t.ks],
                    k + 1, n)

\* The module with one run of startParkour() under way in the laid-out arena,
\* some way along the route.  calls counts from here on.
InitRoute ==
    /\ createToastDefined \in BOOLEAN
    /\ toastWrap = <<>>
    /\ xp = XpStart
    /\ achievements = {}
    /\ parkourInstance = 1
    /\ arena = PlayArena
    /\ calls = [ticks |-> 0, destroys |-> 0, clicks |-> 0]
    /\ blocks = NoBlocks
    /\ \E n \in 0..Len(Route) :
         LET r == Routed([inst |-> NewInst(PlayArena), ok |-> TRUE, jumps |-> 0,
                          ks |-> {}], 1, n)
         IN  /\ r.ok
             /\ keys = r.ks
             /\ insts = [i \in 1..MaxInst |-> IF i = 1 THEN r.inst ELSE NoInst]
             /\ msound = ModulePlayAll(NewModuleSound(TRUE, SoundFiles),
                                       [j \in 1..r.jumps |-> "click"])

-----------------------------------------------------------------------------
(* Class engine: progress state, SaveManager, SoundManager *)

\* calls made on the engine in one behaviour
MaxOps == 3

\* this.state = { ... } of the constructor.  volume and sfxVolume are in
\* hundredths (the sliders give value / 100).
DefaultState ==
    [currentScreen |-> "title", currentBiome |-> "forest", health |-> 10,
     maxHealth |-> 10, xp |-> 0, level |-> 1, xpToNext |-> 100,
     unlockedAchievements |-> {}, hotbarIndex |-> 0, volume |-> 50,
     sfxVolume |-> 70, darkTheme |-> TRUE]

\* Array.from(set): the elements of the set in a sequence
RECURSIVE ArrayFrom(_)
ArrayFrom(set) ==
    IF set = {} THEN <<>>
    ELSE LET x == CHOOSE y \in set : TRUE
         IN  <<x>> \o ArrayFrom(set \ {x})

\* new Set(array)
NewSet(array) == {array[i] : i \in 1..Len(array)}

\* const saveData = { ... } of save().  lastSave (Date.now()) is left out: no
\* code reads it.
SaveData(st) ==
    [xp |-> st.xp, level |-> st.level,
     unlockedAchievements |-> ArrayFrom(st.unlockedAchievements),
     volume |-> st.volume, sfxVolume |-> st.sfxVolume, darkTheme |-> st.darkTheme]

\* What the storage can hold under the save key: nothing, a text that is no
\* JSON, the JSON text of a saveData object; or the storage is unavailable and
\* getItem and setItem throw.
NoBlob == [kind |-> "none"]
Garbage == [kind |-> "garbage"]
Unavailable == [kind |-> "unavailable"]
JsonOf(data) == [kind |-> "json", data |-> data]

\* save(): localStorage.setItem(saveKey, JSON.stringify(saveData)) in a try
\* whose catch only warns
Save(st, sto) == IF sto = Unavailable THEN sto ELSE JsonOf(SaveData(st))

\* value || dflt, on numbers
OrDefault(value, dflt) == IF value = 0 THEN dflt ELSE value

\* load(): the state it leaves, and whether it threw to its caller.  The whole
\* body is in a try whose catch only warns: a missing item returns at once,
\* getItem or JSON.parse that throw leave the state as it was.
Loaded(st, d) ==
    [st EXCEPT !.xp = OrDefault(d.xp, 0),
               !.level = OrDefault(d.level, 1),
               !.unlockedAchievements = NewSet(d.unlockedAchievements),
               !.volume = OrDefault(d.volume, 50),
               !.sfxVolume = OrDefault(d.sfxVolume, 70),
               !.darkTheme = d.darkTheme]
LoadNoTry(st, sto) ==
    IF sto.kind = "json" THEN [state |-> Loaded(st, sto.data), threw |-> FALSE]
    ELSE [state |-> st, threw |-> sto.kind # "none"]
Load(st, sto) ==
    IF sto.kind = "json" THEN [state |-> Loaded(st, sto.data), threw |-> FALSE]
    ELSE [state |-> st, threw |-> FALSE]

\* The toasts of the engine's handlers
BlockToast == [title |-> "Block Broken!", description |-> "fact"]
SentToast == [title |-> "Message Sent!", description |-> "Thanks for reaching out!"]
LevelToast == [title |-> "Level Up!", description |-> "Reached level"]
\* showToast(`Achievement: ${title}`, description); the descriptions are left out
AchievementToast(title) == [title |-> "Achievement: " \o title, description |-> ""]

\* What a handler did besides changing this.state: the toasts it requested and
\* the sounds it played, in order, and whether it called saveManager.save().
Did(st, toasts, sounds, saved) ==
    [state |-> st, toasts |-> toasts, sounds |-> sounds, saved |-> saved]

\* The while loop of addXP
RECURSIVE LevelUps(_)
LevelUps(r) ==
    IF r.state.xp >= r.state.xpToNext
    THEN LevelUps(Did([r.state EXCEPT !.xp = @ - r.state.xpToNext,
                                      !.level = @ + 1,
                                      !.xpToNext = (r.state.xpToNext * 3) \div 2],
                      Append(r.toasts, LevelToast),
                      Append(r.sounds, "xp_gain"),
                      r.saved))
    ELSE r

\* addXP(amount), after what r has done
AddXP(r, amount) ==
    LevelUps(Did([r.state EXCEPT !.xp = @ + amount], r.toasts, r.sounds, r.saved))

\* unlockAchievement(title, description), after what r has done
UnlockAlways(r, title) ==
    LET a == AddXP(Did([r.state EXCEPT !.unlockedAchievements = @ \cup {title}],
                       r.toasts, r.sounds, r.saved), 25)
    IN  Did(a.state, Append(a.toasts, AchievementToast(title)),
            Append(a.sounds, "achievement"), TRUE)
UnlockToastFirst(r, title) ==
    IF title \in r.state.unlockedAchievements THEN r
    ELSE LET a == AddXP(Did([r.state EXCEPT !.unlockedAchievements = @ \cup {title}],
                            Append(r.toasts, AchievementToast(title)), r.sounds,
                            r.saved), 25)
         IN  Did(a.state, a.toasts, Append(a.sounds, "achievement"), TRUE)
UnlockAchievement(r, title) ==
    IF title \in r.state.unlockedAchievements THEN r
    ELSE LET a == AddXP(Did([r.state EXCEPT !.unlockedAchievements = @ \cup {title}],
                            r.toasts, r.sounds, r.saved), 25)
         IN  Did(a.state, Append(a.toasts, AchievementToast(title)),
                 Append(a.sounds, "achievement"), TRUE)

\* const biomes = ['forest', 'cave', 'desert', 'sky', 'nether']
Biomes == <<"forest", "cave", "desert", "sky", "nether">>

\* The nested calls the call stack holds before the engine throws a
\* RangeError ("Maximum call stack size exceeded")
MaxStack == 6

\* [...].indexOf(biome)
BiomeIndex(biome) ==
    IF \E i \in 1..Len(Biomes) : Biomes[i] = biome
    THEN (CHOOSE i \in 1..Len(Biomes) : Biomes[i] = biome) - 1
    ELSE -1

\* What a call that found the stack full leaves behind
StackOverflow(st) == [state |-> st, sounds |-> <<>>, threw |-> TRUE]

\* switchHotbar(index) and switchBiome(biome) as the depth-th nested call: the
\* state each leaves, the sounds it played and whether a RangeError went
\* through it.  Each plays its sound after the call of the other returned.
RECURSIVE SwitchHotbarAt(_, _, _)
RECURSIVE SwitchBiomeAt(_, _, _)
SwitchHotbarAt(st, index, depth) ==
    IF depth > MaxStack THEN StackOverflow(st)
    ELSE IF index < 0 \/ index > 8 THEN [state |-> st, sounds |-> <<>>, threw |-> FALSE]
    ELSE LET s1 == [st EXCEPT !.hotbarIndex = index]
             b  == IF index < Len(Biomes)
                   THEN SwitchBiomeAt(s1, Biomes[index + 1], depth + 1)
                   ELSE [state |-> s1, sounds |-> <<>>, threw |-> FALSE]
         IN  IF b.threw THEN b
             ELSE [state |-> b.state, sounds |-> Append(b.sounds, "hover"),
                   threw |-> FALSE]
SwitchBiomeAt(st, biome, depth) ==
    IF depth > MaxStack THEN StackOverflow(st)
    ELSE IF st.currentScreen # "game" THEN [state |-> st, sounds |-> <<>>, threw |-> FALSE]
    ELSE LET s1 == [st EXCEPT !.currentBiome = biome]
             h  == SwitchHotbarAt(s1, BiomeIndex(biome), depth + 1)
         IN  IF h.threw THEN h
             ELSE [state |-> h.state, sounds |-> Append(h.sounds, "page_switch"),
                   threw |-> FALSE]

\* switchHotbar(index), called from a handler
SwitchHotbarLoose(st, index) ==
    IF index < 0 \/ index > 9 THEN [state |-> st, sounds |-> <<>>, threw |-> FALSE]
    ELSE [state |-> [st EXCEPT !.hotbarIndex = index], sounds |-> <<"hover">>,
          threw |-> FALSE]
SwitchHotbar(st, index) == SwitchHotbarAt(st, index, 1)

\* switchBiome(biome), called from a handler
SwitchBiome(st, biome) == SwitchBiomeAt(st, biome, 1)

\* The sounds init() loads
SoundNames ==
    {"ui_click", "block_break", "xp_gain", "achievement", "open_inventory",
     "hover", "pause_menu", "page_switch"}

\* new SoundManager(); audioContext: whether it is set (not null); the volumes
\* in hundredths.  backend: whether the browser has an AudioContext; assets:
\* the sound files that can be fetched and decoded; plays: history, the
\* playbacks started.
NewSoundManager(backend, assets) ==
    [initialized |-> FALSE, audioContext |-> FALSE, sounds |-> {},
     masterVolume |-> 50, sfxVolume |-> 70, plays |-> 0,
     backend |-> backend, assets |-> assets]

\* init() up to its first await: the AudioContext is made, or the constructor
\* throws and the catch runs setupFallbackSounds().
SoundInitCalled(snd) ==
    IF snd.backend THEN [snd EXCEPT !.audioContext = TRUE]
    ELSE [snd EXCEPT !.initialized = TRUE, !.sounds = {"fallback"}]

\* init() from its first await on: every loadSound has set its buffer or
\* logged its failure, then initialized = true.
SoundInitLoaded(snd) ==
    [snd EXCEPT !.initialized = TRUE, !.sounds = snd.assets \cap SoundNames]

\* play(name): the manager it leaves and whether it threw.  Not initialized, it
\* goes to playFallback and playBeep, where new OscillatorNode(this.audioContext
\* || {}) throws a TypeError when there is no AudioContext; initialized, it
\* returns when the map has no such name, and else calls
\* this.audioContext.createBufferSource().
Play(snd, name) ==
    IF ~snd.initialized
    THEN (IF snd.audioContext
          THEN [snd |-> [snd EXCEPT !.plays = @ + 1], threw |-> FALSE]
          ELSE [snd |-> snd, threw |-> TRUE])
    ELSE IF name \notin snd.sounds THEN [snd |-> snd, threw |-> FALSE]
    ELSE IF snd.audioContext
    THEN [snd |-> [snd EXCEPT !.plays = @ + 1], threw |-> FALSE]
    ELSE [snd |-> snd, threw |-> TRUE]

\* The sounds of a handler played in order; one that throws ends the handler.
RECURSIVE PlayAll(_, _)
PlayAll(snd, names) ==
    IF names = <<>> THEN [snd |-> snd, threw |-> FALSE]
    ELSE LET r == Play(snd, Head(names))
         IN  IF r.threw THEN r ELSE PlayAll(r.snd, Tail(names))

\* The UIManager after showToast was called for the messages ms, in order.
\* ts: its queue, flag, container, pending callbacks and histories.
RECURSIVE AfterToasts(_, _)
AfterToasts(ts, ms) ==
    IF ms = <<>> THEN ts
    ELSE LET t == NewToast(Head(ms), Len(ts.enq) + 1)
             r == ProcessToastQueue(Push(ts.q, t), ts.showing, ts.cont, ts.tms)
         IN  AfterToasts([q |-> r.q, showing |-> r.showing, cont |-> r.cont,
                          tms |-> r.tms, enq |-> Append(ts.enq, t),
                          shown |-> ts.shown \o r.shown,
                          since |-> IF r.shown = <<>> THEN ts.since ELSE 0,
                          gap |-> IF r.shown = <<>> THEN ts.gap
                                  ELSE IF ts.shown = <<>> THEN -1 ELSE ts.since],
                         Tail(ms))

\* The handlers' calls of uiManager.showToast, as assignments
ShowToasts(ms) ==
    LET ts == AfterToasts([q |-> toastQueue, showing |-> isShowingToast,
                           cont |-> toastContainer, tms |-> timers, enq |-> enqLog,
                           shown |-> shownLog, since |-> sinceShown, gap |-> lastGap],
                          ms)
    IN  /\ toastQueue' = ts.q
        /\ isShowingToast' = ts.showing
        /\ toastContainer' = ts.cont
        /\ timers' = ts.tms
        /\ enqLog' = ts.enq
        /\ shownLog' = ts.shown
        /\ sinceShown' = ts.since
        /\ lastGap' = ts.gap
        /\ UNCHANGED <<removedLog, exitRuns>>

\* A call on the engine once its listeners are set up: the call is counted and
\* what it did (r) is applied.  (A play that throws would end the handler where
\* it stands; the handlers are set up after soundManager.init(), and from then
\* on play does not throw for the names they pass.)
Handled(op, title, index, r) ==
    /\ booted
    /\ opLog.n < MaxOps
    /\ opLog' = [n |-> opLog.n + 1, op |-> op, title |-> title, index |-> index]
    /\ engineState' = r.state
    /\ storage' = IF r.saved THEN Save(r.state, storage) ELSE storage
    /\ ShowToasts(r.toasts)
    /\ esound' = PlayAll(esound, r.sounds).snd
    /\ threw' = PlayAll(esound, r.sounds).threw
    /\ UNCHANGED <<booted, mvars>>

\* A call that leaves the parkour game's flag alone
Called(op, title, index, r) ==
    Handled(op, title, index, r) /\ UNCHANGED parkourCompleted

Nothing(st) == Did(st, <<>>, <<>>, FALSE)

\* Click on a block: sound, the fact's toast, addXP(10), and the 'First Block'
\* achievement when it is not unlocked yet.
BlockClick(st) ==
    LET a == AddXP(Did(st, <<BlockToast>>, <<"block_break">>, FALSE), 10)
    IN  IF "First Block" \in a.state.unlockedAchievements THEN a
        ELSE UnlockAchievement(a, "First Block")
BreakBlock == Called("breakBlock", "", 0, BlockClick(engineState))

\* Submit of the contact form: toast, addXP(15)
SubmitContact ==
    Called("submitContact", "", 0, AddXP(Did(engineState, <<SentToast>>, <<>>, FALSE), 15))

\* downloadResume(): unlockAchievement('Download Resume', ...)
DownloadResume ==
    Called("unlockAchievement", "Download Resume", 0,
           UnlockAchievement(Nothing(engineState), "Download Resume"))

\* const recipes = {...}: the slot combinations that craft something
Recipes == {"react+node+aws", "python+docker+security", "git+linux+api"}

\* The slot contents joined with '+', as the craft button reads them: the
\* recipes, a recipe with its last slot empty, a recipe's items in another
\* order, and three empty slots.
CraftInputs ==
    Recipes \cup {"react+node+empty", "aws+node+react", "empty+empty+empty"}

\* The click handler of the craft button up to its sound: a recipe unlocks
\* 'Crafting Expert', anything else changes the result slot only.
CraftedAlways(st, items) == UnlockAchievement(Nothing(st), "Crafting Expert")
Crafted(st, items) ==
    IF items \in Recipes THEN UnlockAchievement(Nothing(st), "Crafting Expert")
    ELSE Nothing(st)

\* Click on the craft button with the slots holding items
Craft(items) ==
    LET r == Crafted(engineState, items)
    IN  Called("craft", items, 0,
               Did(r.state, r.toasts, Append(r.sounds, "block_break"), r.saved))

\* completeParkour(): it returns when this.parkourCompleted is set; else it
\* sets it, addXP(50), unlockAchievement('Parkour Master', ...).  It leaves
\* the flag and what it did.
CompleteAgain(st, completed) ==
    [completed |-> TRUE,
     did |-> UnlockAchievement(AddXP(Nothing(st), 50), "Parkour Master")]
CompleteParkour(st, completed) ==
    IF completed THEN [completed |-> TRUE, did |-> Nothing(st)]
    ELSE [completed |-> TRUE,
          did |-> UnlockAchievement(AddXP(Nothing(st), 50), "Parkour Master")]

\* A frame callback of updateParkour once init() has run, with the player
\* overlapping the platform of class 'end' or not (the platforms are elements
\* of the page).  The call initParkourGame itself makes finds the player at
\* its starting position, away from that platform.
ParkourTick(overlap) ==
    LET c == IF overlap THEN CompleteParkour(engineState, parkourCompleted)
             ELSE [completed |-> parkourCompleted, did |-> Nothing(engineState)]
    IN  /\ Handled("updateParkour", "", IF overlap THEN 1 ELSE 0, c.did)
        /\ parkourCompleted' = c.completed

\* startGame(), when its loading interval and timeout have run:
\* switchScreen('game'), the welcome toast and a sound
EnterGame ==
    /\ engineState.currentScreen = "title"
    /\ Called("startGame", "", 0,
              Did([engineState EXCEPT !.currentScreen = "game"],
                  <<[title |-> "Welcome!", description |-> "Use 1-9 to navigate sections"]>>,
                  <<"achievement">>, FALSE))

\* The values the volume sliders are moved to here, in hundredths
SliderValues == {0, 80}

\* input on #masterVolume: state.volume = value / 100; soundManager.setVolume(...)
SetVolume(v) ==
    /\ booted
    /\ opLog.n < MaxOps
    /\ engineState.volume # v
    /\ opLog' = [n |-> opLog.n + 1, op |-> "setVolume", title |-> "", index |-> v]
    /\ engineState' = [engineState EXCEPT !.volume = v]
    /\ esound' = [esound EXCEPT !.masterVolume = v]
    /\ threw' = FALSE
    /\ UNCHANGED <<storage, booted, parkourCompleted, tvars, mvars>>

\* Click on .save-settings: saveManager.save(), toggleSettings() (the modal is
\* open and closes: 'ui_click'), play('ui_click')
SaveSettings ==
    Called("saveSettings", "", 0, Did(engineState, <<>>, <<"ui_click", "ui_click">>, TRUE))

\* The indexes switchHotbar is called with here: the slots 0 to 8 come from
\* the keys 1 to 9 and the wheel; -1 and 9 lie outside.
HotbarIndexes == {-1, 0, 6, 8, 9}

\* switchHotbar(index)
SwitchHotbarCall(index) ==
    /\ booted
    /\ opLog.n < MaxOps
    /\ opLog' = [n |-> opLog.n + 1, op |-> "switchHotbar", title |-> "", index |-> index]
    /\ LET r == SwitchHotbar(engineState, index)
       IN  /\ engineState' = r.state
           /\ esound' = PlayAll(esound, r.sounds).snd
           /\ threw' = (r.threw \/ PlayAll(esound, r.sounds).threw)
    /\ UNCHANGED <<storage, booted, parkourCompleted, tvars, mvars>>

\* const newIndex = (this.engine.state.hotbarIndex + delta + 9) % 9
WheelIndexNoWrap(index, delta) == index + delta
WheelIndex(index, delta) == (index + delta + 9) % 9

\* handleWheel(self): off the game screen it returns; else delta is 1 for
\* deltaY > 0 and -1 otherwise, and switchHotbar(newIndex)
Wheel(delta) ==
    /\ booted
    /\ opLog.n < MaxOps
    /\ opLog' = [n |-> opLog.n + 1, op |-> "wheel", title |-> "", index |-> delta]
    /\ LET r == IF engineState.currentScreen # "game"
                THEN [state |-> engineState, sounds |-> <<>>, threw |-> FALSE]
                ELSE SwitchHotbar(engineState, WheelIndex(engineState.hotbarIndex, delta))
       IN  /\ engineState' = r.state
           /\ esound' = PlayAll(esound, r.sounds).snd
           /\ threw' = (r.threw \/ PlayAll(esound, r.sounds).threw)
    /\ UNCHANGED <<storage, booted, parkourCompleted, tvars, mvars>>

\* The hotbar slots that have a biome: the first and the last of them
BiomeSlots == {0, 4}

\* Click on a hotbar slot that has a biome: switchBiome(slot.biome), then
\* switchHotbar(index) unless the first call threw
ClickSlot(index) ==
    /\ booted
    /\ opLog.n < MaxOps
    /\ opLog' = [n |-> opLog.n + 1, op |-> "clickSlot", title |-> "", index |-> index]
    /\ LET b == SwitchBiome(engineState, Biomes[index + 1])
           h == SwitchHotbar(b.state, index)
           r == IF b.threw THEN b
                ELSE [state |-> h.state, sounds |-> b.sounds \o h.sounds,
                      threw |-> h.threw]
       IN  /\ engineState' = r.state
           /\ esound' = PlayAll(esound, r.sounds).snd
           /\ threw' = (r.threw \/ PlayAll(esound, r.sounds).threw)
    /\ UNCHANGED <<storage, booted, parkourCompleted, tvars, mvars>>

\* handleAction('projects') and handleAction('skills'): switchBiome('desert')
\* and switchBiome('cave')
ActionBiomes == {"desert", "cave"}

\* switchBiome(biome)
SwitchBiomeCall(biome) ==
    /\ booted
    /\ opLog.n < MaxOps
    /\ opLog' = [n |-> opLog.n + 1, op |-> "switchBiome", title |-> biome, index |-> 0]
    /\ LET r == SwitchBiome(engineState, biome)
       IN  /\ engineState' = r.state
           /\ esound' = PlayAll(esound, r.sounds).snd
           /\ threw' = (r.threw \/ PlayAll(esound, r.sounds).threw)
    /\ UNCHANGED <<storage, booted, parkourCompleted, tvars, mvars>>

\* soundManager.init() goes on after its awaits: the sounds are loaded.
SoundLoaded ==
    /\ ~esound.initialized
    /\ esound.audioContext
    /\ esound' = SoundInitLoaded(esound)
    /\ UNCHANGED <<engineState, storage, booted, threw, opLog, parkourCompleted,
                   tvars, mvars>>

\* init() goes on after `await this.soundManager.init()`:
\* saveManager.load(), then the listeners are set up.
Boot ==
    /\ ~booted
    /\ esound.initialized
    /\ booted' = TRUE
    /\ UNCHANGED parkourCompleted
    /\ engineState' = Load(engineState, storage).state
    /\ threw' = Load(engineState, storage).threw
    /\ opLog' = [opLog EXCEPT !.op = "load", !.title = "", !.index = 0]
    /\ UNCHANGED <<storage, esound, tvars, mvars>>

\* The engine as `new HackercraftEngine()` leaves it: the default state, the
\* managers constructed and init() run up to its first await, inside
\* soundManager.init().
EngineConstructed(backend, assets) ==
    /\ engineState = DefaultState
    /\ esound = SoundInitCalled(NewSoundManager(backend, assets))
    /\ booted = FALSE
    /\ parkourCompleted = FALSE
    /\ threw = FALSE

InitEngineAt(blobs, backends, assetSets) ==
    /\ storage \in blobs
    /\ opLog = [n |-> 0, op |-> "new", title |-> "", index |-> 0]
    /\ \E b \in backends, a \in assetSets : EngineConstructed(b, a)

\* A blob a session before this one has left: the first block broken (10 + 25
\* XP), the contact form sent three times (15 XP each), one more block (10 XP),
\* and the settings saved.
PriorBlob ==
    JsonOf(SaveData([DefaultState EXCEPT !.xp = 90,
                                         !.unlockedAchievements = {"First Block"}]))

\* The blocks broken in the session that left LeveledBlob
PriorBlocks == 20

\* The state after n clicks on blocks
RECURSIVE Mined(_, _)
Mined(st, n) ==
    IF n = 0 \/ st.xp < 0 THEN st ELSE Mined(BlockClick(st).state, n - 1)

\* A blob a longer session has left: PriorBlocks blocks broken from the
\* default state, which took the engine to level 2, and the settings saved.
LeveledBlob == JsonOf(SaveData(Mined(DefaultState, PriorBlocks)))

\* The page is loaded anew (location.reload(), or a new visit): the engine and
\* the module are as first constructed; only the storage stays.
Reload ==
    /\ opLog.n < MaxOps
    /\ opLog' = [n |-> opLog.n + 1, op |-> "reload", title |-> "", index |-> 0]
    /\ engineState' = DefaultState
    /\ esound' = SoundInitCalled(NewSoundManager(esound.backend, esound.assets))
    /\ booted' = FALSE
    /\ parkourCompleted' = FALSE
    /\ threw' = FALSE
    /\ toastQueue' = <<>>
    /\ isShowingToast' = FALSE
    /\ toastContainer' = <<>>
    /\ timers' = {}
    /\ enqLog' = <<>>
    /\ shownLog' = <<>>
    /\ removedLog' = <<>>
    /\ sinceShown' = 0
    /\ lastGap' = -1
    /\ exitRuns' = 0
    /\ toastWrap' = <<>>
    /\ xp' = XpStart
    /\ achievements' = {}
    /\ keys' = {}
    /\ parkourInstance' = 0
    /\ insts' = [i \in 1..MaxInst |-> NoInst]
    /\ calls' = [ticks |-> 0, destroys |-> 0, clicks |-> 0]
    /\ msound' = NewModuleSound(msound.backend, msound.assets)
    /\ blocks' = NoBlocks
    /\ UNCHANGED <<storage, createToastDefined, arena>>

\* The engine in use: its start, the handlers of the page, a reload; and the
\* module's world entry beside it.
NextEngine ==
    \/ SoundLoaded
    \/ Boot
    \/ EnterGame
    \/ BreakBlock
    \/ SubmitContact
    \/ DownloadResume
    \/ \E items \in CraftInputs : Craft(items)
    \/ \E v \in SliderValues : SetVolume(v)
    \/ SaveSettings
    \/ \E i \in HotbarIndexes : SwitchHotbarCall(i)
    \/ \E b \in ActionBiomes : SwitchBiomeCall(b)
    \/ \E delta \in {-1, 1} : Wheel(delta)
    \/ \E i \in BiomeSlots : ClickSlot(i)
    \/ \E overlap \in BOOLEAN : ParkourTick(overlap)
    \/ Reload
    \/ StartWorldSequence

\* The handlers that give XP, with the toast queue's callbacks and the clock
NextLevel ==
    \/ SoundLoaded
    \/ Boot
    \/ BreakBlock
    \/ SubmitContact
    \/ DownloadResume
    \/ AnimComplete
    \/ DisplayTimeout
    \/ ExitTimeout
    \/ Tick

\* The names play is called with: two that init() loads, the entry
\* setupFallbackSounds() makes, and one nothing loads.
PlayedNames == {"ui_click", "hover", "fallback", "creeper"}

\* soundManager.init() is called on a SoundManager just made.
SoundInitCall ==
    /\ ~esound.initialized
    /\ ~esound.audioContext
    /\ esound' = SoundInitCalled(esound)
    /\ UNCHANGED <<engineState, storage, booted, threw, opLog, parkourCompleted,
                   tvars, mvars>>

\* soundManager.play(name), by any caller
PlaySound(name) ==
    /\ opLog.n < MaxOps
    /\ opLog' = [n |-> opLog.n + 1, op |-> "play", title |-> name, index |-> 0]
    /\ esound' = Play(esound, name).snd
    /\ threw' = Play(esound, name).threw
    /\ UNCHANGED <<engineState, storage, booted, parkourCompleted, tvars, mvars>>

\* A SoundManager.init() call of the module for itself (startWorldSequence)
ModuleSoundInit ==
    /\ msound' = SoundInit(msound, NoSound)
    /\ UNCHANGED <<createToastDefined, toastWrap, xp, achievements, keys,
                   parkourInstance, arena, insts, calls, blocks, tvars, evars>>

\* An init() call of the module resolves.
ModuleSoundLoaded ==
    /\ \E name \in msound.waiting : msound' = SoundInitDone(msound, name)
    /\ UNCHANGED <<createToastDefined, toastWrap, xp, achievements, keys,
                   parkourInstance, arena, insts, calls, blocks, tvars, evars>>

\* SoundManager.play(name) of the module, by any caller
ModulePlaySound(name) ==
    /\ msound' = ModulePlay(msound, name)
    /\ UNCHANGED <<createToastDefined, toastWrap, xp, achievements, keys,
                   parkourInstance, arena, insts, calls, blocks, tvars, evars>>

\* Click on the Sound button: state.soundOn = !state.soundOn, and init() when
\* it is on.
ToggleSound ==
    /\ msound' = LET ms == [msound EXCEPT !.soundOn = ~msound.soundOn]
                 IN  IF ms.soundOn THEN SoundInit(ms, NoSound) ELSE ms
    /\ UNCHANGED <<createToastDefined, toastWrap, xp, achievements, keys,
                   parkourInstance, arena, insts, calls, blocks, tvars, evars>>

\* The two sound managers as their constructors leave them, the engine's
\* before its init() is called.
InitSounds(backends, assetSets) ==
    /\ storage = NoBlob
    /\ opLog = [n |-> 0, op |-> "new", title |-> "", index |-> 0]
    /\ engineState = DefaultState
    /\ booted = FALSE
    /\ parkourCompleted = FALSE
    /\ threw = FALSE
    /\ \E b \in backends, a \in assetSets : esound = NewSoundManager(b, a)

\* The sound managers in use: init, the loads, play and the Sound button.
NextSound ==
    \/ SoundInitCall
    \/ SoundLoaded
    \/ \E name \in PlayedNames : PlaySound(name)
    \/ ModuleSoundInit
    \/ ModuleSoundLoaded
    \/ \E name \in {"click", "hover"} : ModulePlaySound(name)
    \/ ToggleSound

\* The engine left alone: nothing stored, every sound there.
InitEngineIdle == InitEngineAt({NoBlob}, {TRUE}, {SoundNames})

-----------------------------------------------------------------------------
(* Specifications *)

\* The class engine's toast queue; the module is left as loaded.
Init == InitToast /\ InitModuleAt({FALSE}, {[w |-> 0, h |-> 0]}) /\ InitEngineIdle

Spec == Init /\ [][NextToast]_vars

\* The callbacks and the clock are driven by the browser's event loop: a
\* callback that is due runs, and time goes on.
LiveSpec ==
    /\ Init
    /\ [][NextToast]_vars
    /\ WF_vars(AnimComplete)
    /\ WF_vars(DisplayTimeout)
    /\ WF_vars(ExitTimeout)
    /\ WF_vars(Tick)

\* The closure module; the class engine's queue is left as constructed.
ModuleInit == InitToast /\ InitModule /\ InitEngineIdle

ModuleSpec == ModuleInit /\ [][NextModule]_vars

ToastStackInit ==
    InitToast /\ InitModuleAt(BOOLEAN, {[w |-> 240, h |-> 160]}) /\ InitEngineIdle

ToastStackSpec == ToastStackInit /\ [][NextToastStack]_vars

\* The block game, from the loaded page on
BlockInit ==
    InitToast /\ InitModuleAt(BOOLEAN, {[w |-> 240, h |-> 160]}) /\ InitEngineIdle

BlockSpec == BlockInit /\ [][NextBlocks]_vars

RunInit == InitToast /\ InitRun /\ InitEngineIdle

RunSpec == RunInit /\ [][NextRun]_vars

\* The run taken up along the route
RouteInit == InitToast /\ InitRoute /\ InitEngineIdle

RouteSpec == RouteInit /\ [][NextRun]_vars

\* A run at the edges: the player has held nothing, left or right, in the
\* laid-out arenas and in the one that is not laid out.
EdgeInit ==
    /\ InitToast
    /\ InitRunAt({{}, {"a"}, {"d"}}, ArenaSizes \cup {PlayArena})
    /\ InitEngineIdle

EdgeSpec == EdgeInit /\ [][NextRun]_vars

\* The class engine from its construction on, over what the storage may hold
\* from before.
EngineInit ==
    /\ InitToast
    /\ InitModuleAt(BOOLEAN, {[w |-> 240, h |-> 160]})
    /\ InitEngineAt({NoBlob, Garbage, Unavailable, PriorBlob, LeveledBlob},
                    {TRUE}, {SoundNames})

EngineSpec == EngineInit /\ [][NextEngine]_vars

\* The class engine taken up with progress stored, its toasts shown in time
LevelInit ==
    /\ InitToast
    /\ InitModuleAt({FALSE}, {[w |-> 0, h |-> 0]})
    /\ InitEngineAt({PriorBlob, LeveledBlob}, {TRUE}, {SoundNames})

LevelSpec == LevelInit /\ [][NextLevel]_vars

\* The two sound managers from their construction on, in a browser with or
\* without an AudioContext, with every sound file, one missing, or none.
SoundInitState ==
    /\ InitToast
    /\ InitModuleWith({TRUE}, {[w |-> 240, h |-> 160]}, BOOLEAN,
                      {SoundFiles, SoundFiles \ {"hover"}, {}})
    /\ InitSounds(BOOLEAN, {SoundNames, SoundNames \ {"hover"}, {}})

SoundSpec == SoundInitState /\ [][NextSound]_vars

-----------------------------------------------------------------------------
(* Properties of the UIManager toast queue *)

Ids(seq) == {seq[i].id : i \in 1..Len(seq)}
ContainerIds == {toastContainer[i].toast.id : i \in 1..Len(toastContainer)}

\* C1: at every instant the toast container holds at most one toast element
\* (visible or dismissing), and it holds one exactly when isShowingToast is true.
C1_AtMostOneToast ==
    /\ Len(toastContainer) <= 1
    /\ (Len(toastContainer) = 1) <=> isShowingToast

\* A burst: one toast is dismissing while two more requests wait.
C1_Witness ==
    /\ isShowingToast
    /\ Len(toastQueue) = 2
    /\ Len(toastContainer) = 1
    /\ toastContainer[1].cls = "hiding"

\* C2: toasts become visible in the order of the showToast calls: the elements
\* created so far are, in order, the first requests made.
C2_ShownInEnqueueOrder ==
    /\ Len(shownLog) <= Len(enqLog)
    /\ shownLog = SubSeq(enqLog, 1, Len(shownLog))

\* The second toast was shown by the exit callback of the first (it had waited
\* in the queue), while a third request is still waiting.
C2_Witness ==
    /\ Len(shownLog) = 2
    /\ Len(removedLog) = 1
    /\ exitRuns = 1
    /\ Len(toastQueue) = 1

\* C3: no request is dropped: every request is eventually shown and eventually
\* removed, and once the requests stop the queue is empty with no toast showing,
\* the histories of shown and removed toasts being the history of requests.
C3_EveryToastShownAndRemoved ==
    /\ \A k \in 1..MaxToasts : (Len(enqLog) >= k) ~> (Len(removedLog) >= k)
    /\ <>[](/\ toastQueue = <<>>
            /\ ~isShowingToast
            /\ shownLog = enqLog
            /\ removedLog = enqLog)

\* Every request of a full burst was shown and removed, two of them with the
\* same title and description.
C3_Witness ==
    /\ Len(enqLog) = MaxToasts
    /\ removedLog = enqLog
    /\ toastQueue = <<>>
    /\ ~isShowingToast
    /\ \E i, j \in 1..Len(enqLog) :
         /\ i < j
         /\ enqLog[i].title = enqLog[j].title
         /\ enqLog[i].description = enqLog[j].description

\* C4: a showToast call made while a toast is visible or dismissing appends the
\* request to the tail of the queue and changes nothing else: the container,
\* the pending callbacks and isShowingToast stay, no element is created.
C4_EnqueueWhileShowing ==
    [][(isShowingToast /\ enqLog' # enqLog) =>
         /\ toastQueue' = Append(toastQueue, enqLog'[Len(enqLog')])
         /\ toastContainer' = toastContainer
         /\ timers' = timers
         /\ isShowingToast' = isShowingToast
         /\ shownLog' = shownLog
         /\ removedLog' = removedLog]_vars

\* Requests have been appended behind a toast that is on screen with its
\* dismissal callback pending.
C4_Witness ==
    /\ isShowingToast
    /\ Len(toastQueue) = 2
    /\ Len(toastContainer) = 1
    /\ toastContainer[1].cls = "showing"
    /\ \E tm \in timers : tm.kind = "display" /\ tm.left < DisplayMs

\* The state of request number n: queued, visible, dismissing, removed.
ToastState(n) ==
    IF n > Len(enqLog) THEN "none"
    ELSE IF n \in Ids(toastQueue) THEN "queued"
    ELSE IF n \in ContainerIds
         THEN (IF toastContainer[IndexOf(toastContainer, n)].cls = "showing"
               THEN "visible" ELSE "dismissing")
    ELSE IF n \in Ids(removedLog) THEN "removed"
    ELSE "lost"

Occurrences(n) ==
    Cardinality({i \in 1..Len(toastQueue) : toastQueue[i].id = n})
    + Cardinality({i \in 1..Len(toastContainer) : toastContainer[i].toast.id = n})
    + Cardinality({i \in 1..Len(removedLog) : removedLog[i].id = n})

\* C5: every toast moves queued -> visible -> dismissing -> removed, one state
\* at a time and never twice (a request made while nothing shows is pushed and
\* shifted by the same showToast call); the 500 ms callback runs the queue
\* processor exactly when it removes a toast, and a toast becomes visible only
\* when every toast shown before it has been removed.
C5_ToastLifecycle ==
    [][/\ \A n \in 1..MaxToasts :
            \/ ToastState(n)' = ToastState(n)
            \/ <<ToastState(n), ToastState(n)'>> \in
                 { <<"none", "queued">>, <<"none", "visible">>, <<"queued", "visible">>,
                   <<"visible", "dismissing">>, <<"dismissing", "removed">> }
       /\ \A n \in 1..Len(enqLog') : Occurrences(n)' = 1
       /\ exitRuns' = Len(removedLog')
       /\ (removedLog' # removedLog /\ toastQueue # <<>>) =>
            shownLog' = Append(shownLog, Head(toastQueue))
       /\ (shownLog' # shownLog) =>
            \A i \in 1..Len(shownLog) : shownLog[i].id \in Ids(removedLog')]_vars

\* The last toast of a burst is on screen, shown by the exit callback of its
\* predecessor, and the earlier ones have been removed.
C5_Witness ==
    /\ Len(removedLog) = 2
    /\ exitRuns = 2
    /\ Len(shownLog) = 3
    /\ ToastState(3) = "dismissing"

\* C6 as stated: a toast is visible for exactly the display interval before it
\* starts dismissing, and the next toast becomes visible no earlier than display
\* interval plus exit interval after the previous one.
C6_Original ==
    /\ \A i \in 1..Len(toastContainer) :
         toastContainer[i].cls = "hiding" => toastContainer[i].shownMs = DisplayMs
    /\ lastGap = -1 \/ lastGap >= DisplayMs + ExitMs

\* C6 amended: a toast is visible for at least the entry animation plus the
\* display interval before it starts dismissing (the display timer is started
\* by the animation's onComplete, and callbacks may run late), and the next
\* toast becomes visible no earlier than display interval plus exit interval
\* after the previous one became visible.
C6_VisibleAtLeastDisplay ==
    /\ \A i \in 1..Len(toastContainer) :
         toastContainer[i].cls = "hiding" =>
           toastContainer[i].shownMs >= AnimMs + DisplayMs
    /\ lastGap = -1 \/ lastGap >= DisplayMs + ExitMs

\* A second toast is dismissing; it followed the first out of a non-empty queue.
C6_Witness ==
    /\ Len(shownLog) = 2
    /\ exitRuns = 1
    /\ lastGap # -1
    /\ Len(toastContainer) = 1
    /\ toastContainer[1].cls = "hiding"
    /\ toastContainer[1].shownMs = AnimMs + DisplayMs

-----------------------------------------------------------------------------
(* Properties of the closure module *)

Count(seq, title) == Cardinality({i \in 1..Len(seq) : seq[i] = title})

\* C7: toasts requested through window.createToast are presented one at a
\* time: with createToast installed, the toast wrap never holds two toast nodes.
C7_OneToastAtATime == createToastDefined => Len(toastWrap) <= 1

\* C8: after destroy() of a parkour instance no frame callback of that instance
\* runs any more.
C8_NoTickAfterDestroy == \A i \in 1..MaxInst : insts[i].ticksAfterDestroy = 0

\* C9: destroy() is idempotent: whenever it is called on an instance (through
\* its handle or by a restart), the instance's loop flag is off and its key
\* handlers are unregistered afterwards; a call on an instance that was
\* destroyed before changes nothing of the instance, and a call through the
\* handle changes nothing else of the module either.
C9_DestroyIdempotent ==
    [][\A i \in 1..MaxInst :
         (insts[i].made /\ insts'[i].destroyCalls = insts[i].destroyCalls + 1) =>
           /\ ~insts'[i].running
           /\ ~insts'[i].listening
           /\ insts[i].destroyCalls >= 1 =>
                insts'[i] = [insts[i] EXCEPT !.destroyCalls = insts[i].destroyCalls + 1]
           /\ calls'.destroys # calls.destroys =>
                /\ UNCHANGED <<createToastDefined, toastWrap, xp, achievements, keys,
                               parkourInstance, arena, msound, blocks>>
                /\ \A j \in 1..MaxInst : j # i => insts'[j] = insts[j]]_vars

\* An instance that had won was destroyed twice.
C9_Witness ==
    \E i \in 1..MaxInst :
      /\ insts[i].destroyCalls >= 2
      /\ insts[i].wins = 1
      /\ arena.w > 0

RunningInsts == {i \in 1..MaxInst : insts[i].running}
ListeningInsts == {i \in 1..MaxInst : insts[i].listening}

\* C31: after any sequence of startWorldSequence and window.startParkour calls
\* at most one parkour instance is running and at most one has its key
\* handlers registered, and that one is state.parkourInstance: each call
\* destroys the previous instance before it creates the next.
C31_OneInstance ==
    /\ Cardinality(RunningInsts) <= 1
    /\ Cardinality(ListeningInsts) <= 1
    /\ RunningInsts \cup ListeningInsts \subseteq {parkourInstance}

\* A second start call has destroyed the first instance while a frame callback
\* of it was still requested; the second instance runs and listens.
C31_Witness ==
    \E i, j \in 1..MaxInst :
      /\ i # j
      /\ insts[i].made /\ ~insts[i].running /\ ~insts[i].listening
      /\ insts[i].frame > 0
      /\ insts[i].destroyCalls = 1
      /\ insts[j].running /\ insts[j].listening
      /\ parkourInstance = j

\* A click on block i, and a run of the part after the wait of block i
ClickOf(i) == blocks'[i].clicks = blocks[i].clicks + 1
RevealOf(i) == blocks'[i].reveals = blocks[i].reveals + 1

-----------------------------------------------------------------------------
(* Properties of the parkour physics *)

\* Elapsed times now - last over the clamped range, in microseconds: from no
\* time at all to beyond the clamp.
ClampedUs == {0, 1000, 8333, 16666, 25000, 32000, 33333}

\* The tick of instance i: step(now) ran once from the unprimed to the primed state.
TickOf(i) == insts[i].made /\ insts'[i].ticks = insts[i].ticks + 1

\* The horizontal velocity step(now) sets from the keys held.
IntentVx == IF "a" \in keys THEN -Speed ELSE IF "d" \in keys THEN Speed ELSE 0

\* C11 as stated: the tick that finds the body below the arena's bottom bound
\* leaves it at the spawn position (20, arena height - 48) with zero velocity in
\* both axes and requests one 'Parkour' (fell) toast; a tick that does not
\* requests none and leaves the body within the bound.
C11_Original ==
    [][\A i \in 1..MaxInst : TickOf(i) =>
         IF insts'[i].falls = insts[i].falls + 1
         THEN /\ insts'[i].x = 20 * Scale
              /\ insts'[i].y = (arena.h - 48) * Scale
              /\ insts'[i].vx = 0
              /\ insts'[i].vy = 0
              /\ createToastDefined =>
                   Count(toastWrap', "Parkour") = Count(toastWrap, "Parkour") + 1
         ELSE /\ insts'[i].falls = insts[i].falls
              /\ insts'[i].y <= arena.h * Scale
              /\ Count(toastWrap', "Parkour") = Count(toastWrap, "Parkour")]_vars

\* C11 amended: the tick that finds the body below the arena's bottom bound
\* leaves it at the spawn position (20, arena height - 48) with zero vertical
\* velocity, the horizontal velocity being the one set from the keys held in
\* that tick (zero when neither left nor right is held), and requests one
\* 'Parkour' (fell) toast where createToast is installed; a tick that does not
\* requests none and leaves the body within the bound.
C11_FallReset ==
    [][\A i \in 1..MaxInst : TickOf(i) =>
         IF insts'[i].falls = insts[i].falls + 1
         THEN /\ insts'[i].x = 20 * Scale
              /\ insts'[i].y = (arena.h - 48) * Scale
              /\ insts'[i].vx = IntentVx
              /\ insts'[i].vy = 0
              /\ createToastDefined =>
                   Count(toastWrap', "Parkour") = Count(toastWrap, "Parkour") + 1
              /\ ~createToastDefined =>
                   Count(toastWrap', "Parkour") = Count(toastWrap, "Parkour")
         ELSE /\ insts'[i].falls = insts[i].falls
              /\ insts'[i].y <= arena.h * Scale
              /\ Count(toastWrap', "Parkour") = Count(toastWrap, "Parkour")]_vars

\* A body that walked off the first platform fell, was reset with its one
\* toast, and a following tick has landed it on the first platform again.
C11_Witness ==
    \E i \in 1..MaxInst :
      /\ insts[i].falls = 1
      /\ insts[i].onGround
      /\ arena.h > 0
      /\ createToastDefined
      /\ Count(toastWrap, "Parkour") = 1

\* The body of instance i stands on a platform: bottom edge on the platform's
\* top, within its horizontal extent, at rest.
Resting(i) ==
    /\ insts[i].onGround
    /\ insts[i].vy = 0
    /\ LET pls == Platforms(SetupH(arena))
       IN  \E k \in 1..Len(pls) :
             /\ insts[i].y + PlayerH = pls[k].y
             /\ insts[i].x + PlayerW > pls[k].x
             /\ insts[i].x < pls[k].x + pls[k].w

\* C12: rest is a fixed point of the tick: a tick of a body standing on a
\* platform with no left, right or jump key held leaves its position
\* unchanged, its vertical velocity zero and onGround true; and so would the
\* tick do for every elapsed time of the clamped range.
C12_RestFixedPoint ==
    [][\A i \in 1..MaxInst :
         /\ (TickOf(i) /\ Resting(i) /\ keys \cap {"a", "d", "w"} = {}) =>
              /\ insts'[i].x = insts[i].x
              /\ insts'[i].y = insts[i].y
              /\ insts'[i].vx = 0
              /\ insts'[i].vy = 0
              /\ insts'[i].onGround
         /\ Resting(i) =>
              \A e \in ClampedUs :
                LET s == StepBody(insts[i], {}, DtOf(e), arena, SetupH(arena))
                IN  /\ s.body.x = insts[i].x
                    /\ s.body.y = insts[i].y
                    /\ s.body.vy = 0
                    /\ s.body.onGround]_vars

\* A body that walked along the first platform and stopped has stood through
\* further ticks with no key held.
C12_Witness ==
    \E i \in 1..MaxInst :
      /\ Resting(i)
      /\ keys = {}
      /\ insts[i].vx = 0
      /\ insts[i].x > 20 * Scale
      /\ calls.ticks >= 2
      /\ insts[i].jumps = 0
      /\ insts[i].falls = 0

\* C13: a tick that starts with onGround true and the jump key held ends with
\* onGround false and a negative (upward) vertical velocity; and so would the
\* tick do for every elapsed time of the clamped range and every horizontal
\* intent.
C13_JumpLeavesGround ==
    [][\A i \in 1..MaxInst :
         /\ (TickOf(i) /\ insts[i].onGround /\ "w" \in keys) =>
              /\ ~insts'[i].onGround
              /\ insts'[i].vy < 0
              /\ insts'[i].jumps = insts[i].jumps + 1
         /\ insts[i].onGround =>
              \A e \in ClampedUs, ks \in {{"w"}, {"w", "a"}, {"w", "d"}} :
                LET s == StepBody(insts[i], ks, DtOf(e), arena, SetupH(arena))
                IN  /\ s.jumped
                    /\ ~s.body.onGround
                    /\ s.body.vy < 0]_vars

\* A body that walked along the first platform has just jumped from it.
C13_Witness ==
    \E i \in 1..MaxInst :
      /\ calls.ticks >= 1
      /\ insts[i].jumps = 1
      /\ ~insts[i].onGround
      /\ insts[i].vy = -JumpStrength
      /\ insts[i].x > 20 * Scale
      /\ insts[i].y + PlayerH < Platforms(SetupH(arena))[1].y

\* C14: the jump is edge-triggered: a body jumps at most once for one press of
\* the jump key, however long the key is held.
C14_OneJumpPerPress == \A i \in 1..MaxInst : insts[i].jumps <= 1

\* The vertical velocity of instance i after a tick in which gravity alone
\* acted on it
Gravitated(i) ==
    \E e \in ElapsedUs :
        insts'[i].vy = insts[i].vy + ((Gravity * DtOf(e)) \div Scale)

\* C21 as stated: in a tick that starts with onGround false, jump intent or
\* not, the vertical velocity changes only by gravity and by landing.
C21_Original ==
    [][\A i \in 1..MaxInst :
         (TickOf(i) /\ ~insts[i].onGround) =>
            /\ insts'[i].jumps = insts[i].jumps
            /\ \/ Gravitated(i)
               \/ insts'[i].onGround /\ insts'[i].vy = 0]_vars

\* C21: jump intent is effective only on the ground.  A tick that starts with
\* onGround false makes no jump: the vertical velocity is the one gravity
\* gives, or zero after a landing, or zero after the fall reset.
C21_NoMidAirJump ==
    [][\A i \in 1..MaxInst :
         (TickOf(i) /\ ~insts[i].onGround) =>
            /\ insts'[i].jumps = insts[i].jumps
            /\ \/ Gravitated(i)
               \/ insts'[i].onGround /\ insts'[i].vy = 0
               \/ insts'[i].falls = insts[i].falls + 1 /\ insts'[i].vy = 0]_vars

\* The jump key has been held since the body left the ground, and a tick has
\* run on the body in the air.
C21_Witness ==
    /\ "w" \in keys
    /\ calls.ticks >= 1
    /\ insts[1].jumps = 1
    /\ ~insts[1].onGround
    /\ insts[1].vy # -JumpStrength
    /\ insts[1].vy < 0

\* The horizontal extent of a body at x overlaps the platform pl
Over(x, pl) == x + PlayerW > pl.x /\ x < pl.x + pl.w

\* C22: a body moving downward never tunnels through a platform.  If it is over
\* a platform before a tick, with its bottom edge at or above the platform's
\* top, and is still over it after the tick, then its bottom edge is not below
\* the platform's top after the tick.
C22_NoTunnelling ==
    [][\A i \in 1..MaxInst :
         TickOf(i) =>
            \A n \in 1..Len(Platforms(SetupH(arena))) :
               LET pl == Platforms(SetupH(arena))[n]
               IN  (/\ insts[i].vy >= 0
                    /\ Over(insts[i].x, pl)
                    /\ Over(insts'[i].x, pl)
                    /\ insts[i].y + PlayerH <= pl.y)
                   => insts'[i].y + PlayerH <= pl.y]_vars

\* 32 / 16.666 in thousandths
MaxFactor == ((ClampUs * Scale) + (FrameUs \div 2)) \div FrameUs

\* The body of an instance record
BodyOf(me) ==
    [x |-> me.x, y |-> me.y, vx |-> me.vx, vy |-> me.vy, onGround |-> me.onGround]

\* C23: the elapsed time a tick uses is min(32 ms, now - last), and last is
\* advanced to now.  With gap the advance of last over a tick: the tick moved
\* the body by the frame factor of the clamped gap, which is gap / 16.666 for a
\* gap of at most 32 ms and never more than 32 / 16.666.
C23_ElapsedClamped ==
    [][\A i \in 1..MaxInst :
         TickOf(i) =>
            LET gap == insts'[i].last - insts[i].last
            IN  /\ gap \in ElapsedUs
                /\ DtOf(gap) <= MaxFactor
                /\ gap <= ClampUs => DtOf(gap) = ((gap * Scale) + (FrameUs \div 2)) \div FrameUs
                /\ gap > ClampUs => DtOf(gap) = MaxFactor
                /\ BodyOf(insts'[i]) =
                     StepBody(insts[i], keys, DtOf(gap), arena, SetupH(arena)).body]_vars

\* Two frame callbacks of one instance ran, one of them 33.333 ms after the
\* time in last, a gap above the clamp; the body has landed.
C23_Witness ==
    \E i \in 1..MaxInst :
       /\ insts[i].ticks = 2
       /\ calls.ticks = 2
       /\ insts[i].last = 16666 + 33333
       /\ insts[i].onGround

\* if (player.x + player.w > px1 && player.x < px2)
\*   if (playerBottom >= py && playerBottom < py + 16 && player.vy >= 0)
Hit(b, x, pl) ==
    /\ Over(x, pl)
    /\ b.y + PlayerH >= pl.y
    /\ b.y + PlayerH < pl.y + (16 * Scale)
    /\ b.vy >= 0

\* Platform k matches the body m in the pass: the body as the platforms before
\* k have left it.
Matched(m, h, k) ==
    Hit(CollideFrom([y |-> m.y, vy |-> m.vy, onGround |-> FALSE], m.x,
                    SubSeq(Platforms(h), 1, k - 1), 1),
        m.x, Platforms(h)[k])

LastOf(ks) == CHOOSE k \in ks : \A j \in ks : j <= k

\* C24: the collision pass.  After it onGround is true exactly when some
\* platform matched; then the body's bottom edge is at the top of the last
\* platform that matched and vy = 0, and else the pass has left the position
\* and the velocity of the moved body as they were.  (A tick that goes on to
\* the fall block then resets the position.)
C24_CollisionPass ==
    [][\A i \in 1..MaxInst :
         TickOf(i) =>
            LET h  == SetupH(arena)
                m  == Moved(insts[i], keys, DtOf(insts'[i].last - insts[i].last))
                ks == {k \in 1..Len(Platforms(h)) : Matched(m, h, k)}
            IN  /\ insts'[i].onGround <=> ks # {}
                /\ insts'[i].falls = insts[i].falls =>
                     IF ks # {}
                     THEN /\ insts'[i].y + PlayerH = Platforms(h)[LastOf(ks)].y
                          /\ insts'[i].vy = 0
                     ELSE /\ insts'[i].y = m.y
                          /\ insts'[i].vy = m.vy]_vars

\* A tick has left the body on the second platform.
C24_Witness ==
    /\ calls.ticks >= 1
    /\ insts[1].onGround
    /\ insts[1].vy = 0
    /\ insts[1].y + PlayerH = Platforms(SetupH(arena))[2].y
    /\ Over(insts[1].x, Platforms(SetupH(arena))[2])

\* C25: the ticks of one instance are strictly sequential.  At every instant
\* at most one frame callback of the instance is requested and not yet run; a
\* tick is one run of step, which takes the callback that ran it and requests
\* at most one successor.
C25_TicksSequential ==
    /\ [](\A i \in 1..MaxInst : insts[i].frame <= 1)
    /\ [][\A i \in 1..MaxInst :
            /\ TickOf(i) =>
                 /\ insts[i].frame = 1
                 /\ insts'[i].frame \in {0, 1}
                 /\ insts'[i].frame = 1 <=> insts'[i].running
            /\ insts'[i].ticks \in {insts[i].ticks, insts[i].ticks + 1, 0}]_vars

\* Two ticks of an instance have run one after the other, and the third is
\* requested.
C25_Witness ==
    \E i \in 1..MaxInst :
       /\ insts[i].ticks = 2
       /\ calls.ticks >= 2
       /\ insts[i].frame = 1
       /\ insts[i].running

\* C26: after every tick the body lies within the arena horizontally,
\* 0 <= x and x + width <= arena width - 6, whatever the inputs, the tick of
\* a fall reset included.
C26_InsideArena ==
    [][\A i \in 1..MaxInst :
         TickOf(i) =>
            /\ 0 <= insts'[i].x
            /\ insts'[i].x + PlayerW <= (arena.w - 6) * Scale]_vars

\* The narrowest arena that holds the spawn position: 20 + 20 + 6 px
SpawnWidth == 46

\* In an arena at least that wide the body does lie within it after every
\* tick.
InsideWideArena ==
    [][\A i \in 1..MaxInst :
         (TickOf(i) /\ arena.w >= SpawnWidth) =>
            /\ 0 <= insts'[i].x
            /\ insts'[i].x + PlayerW <= (arena.w - 6) * Scale]_vars

\* C27: destroy() unregisters the instance's key handlers.  An instance that
\* was destroyed has no handler registered, at the call and ever after, and a
\* key event changes state.keys only while some instance has its handler
\* registered: with every instance destroyed the map stays as it is.
C27_KeysReleased ==
    /\ [](\A i \in 1..MaxInst : insts[i].destroyCalls >= 1 => ~insts[i].listening)
    /\ [][/\ \A i \in 1..MaxInst :
               insts'[i].destroyCalls > insts[i].destroyCalls => ~insts'[i].listening
          /\ keys' # keys => \E i \in 1..MaxInst :
               insts[i].made /\ insts[i].listening /\ insts[i].destroyCalls = 0]_vars

\* Instances were destroyed with a key held, none has a handler registered,
\* and the key is still down in the map.
C27_Witness ==
    /\ \E i \in 1..MaxInst : insts[i].destroyCalls >= 1
    /\ \A i \in 1..MaxInst : ~insts[i].listening
    /\ "d" \in keys
    /\ calls.destroys >= 1

-----------------------------------------------------------------------------
(* Properties of the class engine's progress state *)

\* A call of the engine was made in this step.
CallOf(op) == opLog'.n = opLog.n + 1 /\ opLog'.op = op

\* C15: the settings round trip: in every state the engine reaches, save()
\* followed by load() into a freshly constructed default state gives the same
\* xp, level, unlockedAchievements, volume and sfxVolume.
C15_RoundTrip ==
    booted =>
      LET r == Load(DefaultState, Save(engineState, NoBlob)).state
      IN  /\ r.xp = engineState.xp
          /\ r.level = engineState.level
          /\ r.unlockedAchievements = engineState.unlockedAchievements
          /\ r.volume = engineState.volume
          /\ r.sfxVolume = engineState.sfxVolume

\* C16: load() with no stored item, with a stored text that cannot be parsed,
\* or with a storage that throws, raises nothing to its caller and leaves the
\* whole state at its defaults.
C16_LoadFallsBack ==
    [][(~booted /\ booted' /\ storage.kind \in {"none", "garbage", "unavailable"}) =>
         /\ ~threw'
         /\ engineState' = DefaultState
         /\ storage' = storage]_vars

\* The engine has started over a stored text that is no JSON.
C16_Witness ==
    /\ booted
    /\ opLog.op = "load"
    /\ storage = Garbage
    /\ ~threw
    /\ engineState = DefaultState

\* How many requests so far were for the toast of achievement title.
ToastsIn(log, title) ==
    Cardinality({i \in 1..Len(log) : log[i].title = "Achievement: " \o title})
ToastsOf(title) == ToastsIn(enqLog, title)

\* C17: unlocking is one-time.  unlockAchievement for a title already unlocked
\* changes nothing: no XP, no toast, no sound, no save; for a new title it adds
\* the title, requests its toast, plays and saves; so no achievement has its
\* toast requested twice.  awardAchievement of the module for an id already
\* there adds no toast and leaves the set as it is, and the call of
\* startWorldSequence around it makes only its own sounds.
C17_UnlockOnce ==
    [][/\ CallOf("unlockAchievement") =>
            IF opLog'.title \in engineState.unlockedAchievements
            THEN /\ engineState' = engineState
                 /\ storage' = storage
                 /\ esound' = esound
                 /\ UNCHANGED tvars
            ELSE /\ engineState'.unlockedAchievements =
                      engineState.unlockedAchievements \cup {opLog'.title}
                 /\ ToastsIn(enqLog', opLog'.title) = 1
                 /\ esound'.plays > esound.plays
                 /\ storage # Unavailable => storage' = JsonOf(SaveData(engineState'))
       /\ \A title \in {"First Block", "Download Resume", "Crafting Expert"} :
            ToastsIn(enqLog', title) <= 1
       /\ (insts' # insts /\ parkourInstance' # 0 /\ "enter-world" \in achievements) =>
            /\ achievements' = achievements
            /\ Count(toastWrap', "World Entered") = Count(toastWrap, "World Entered")
            /\ msound' = ModulePlayAll(SoundInit(msound, NoSound),
                                       ToastSound \o <<"open">>)]_vars

\* downloadResume() was called again after the volume was changed: the stored
\* blob is the one its first call saved.
C17_Witness ==
    /\ opLog.op = "unlockAchievement"
    /\ opLog.title = "Download Resume"
    /\ "Download Resume" \in engineState.unlockedAchievements
    /\ storage.kind = "json"
    /\ "Download Resume" \in NewSet(storage.data.unlockedAchievements)
    /\ storage.data.volume # engineState.volume
    /\ engineState.xp = 25
    /\ ToastsOf("Download Resume") = 1

\* C18: the progress is written on every mutation: after a call that changes
\* xp, level or unlockedAchievements (a block broken, the contact form sent,
\* an achievement unlocked) the stored blob holds the xp, the level and the
\* achievements of the state.
C18_SavedOnMutation ==
    (/\ booted
     /\ opLog.op \in {"breakBlock", "submitContact", "unlockAchievement"}
     /\ storage # Unavailable) =>
       /\ storage.kind = "json"
       /\ storage.data.xp = engineState.xp
       /\ storage.data.level = engineState.level
       /\ NewSet(storage.data.unlockedAchievements) = engineState.unlockedAchievements

\* C19: switchHotbar with an index below 0 or above 8 does nothing: the state
\* (hotbarIndex, currentBiome, currentScreen) stays, no sound is played and
\* nothing is thrown.
C19_HotbarOutOfRange ==
    [][(CallOf("switchHotbar") /\ opLog'.index \notin 0..8) =>
         /\ engineState' = engineState
         /\ esound' = esound
         /\ ~threw'
         /\ storage' = storage
         /\ UNCHANGED tvars]_vars

\* On the game screen, with a slot other than the first one active,
\* switchHotbar(9) was called.
C19_Witness ==
    /\ opLog.op = "switchHotbar"
    /\ opLog.index = 9
    /\ engineState.currentScreen = "game"
    /\ engineState.hotbarIndex = 6
    /\ ~threw

\* C28: a craft attempt with a combination that is no recipe changes no
\* progress state: the engine state and the stored blob stay as they are, no
\* toast is requested and nothing is thrown; the sound is played.
C28_UnknownRecipe ==
    [][(CallOf("craft") /\ opLog'.title \notin Recipes) =>
          /\ engineState' = engineState
          /\ storage' = storage
          /\ UNCHANGED tvars
          /\ ~threw'
          /\ esound'.plays = esound.plays + 1]_vars

\* After some progress was made, the craft button was clicked with the last
\* slot empty.
C28_Witness ==
    /\ opLog.op = "craft"
    /\ opLog.title = "react+node+empty"
    /\ engineState.xp > 0
    /\ "Crafting Expert" \notin engineState.unlockedAchievements
    /\ esound.plays >= 2

\* C29: switchHotbar(index) and switchBiome(biome) always terminate: on every
\* screen and for every index and biome the nested calls between the two
\* return before the call stack is full.
C29_SwitchTerminates ==
    [][/\ CallOf("switchHotbar") => ~SwitchHotbar(engineState, opLog'.index).threw
       /\ CallOf("switchBiome") => ~SwitchBiome(engineState, opLog'.title).threw]_vars

\* Away from the game screen the calls return: every index and every biome
\* ends within three nested calls.
SwitchReturnsOffGame ==
    engineState.currentScreen # "game" =>
        /\ \A i \in -1..9 : ~SwitchHotbar(engineState, i).threw
        /\ \A i \in 1..Len(Biomes) : ~SwitchBiome(engineState, Biomes[i]).threw

\* On the game screen only the indexes 5 to 8 and those out of range return.
SwitchReturnsOnGame ==
    engineState.currentScreen = "game" =>
        \A i \in -1..9 : SwitchHotbar(engineState, i).threw <=> i \in 0..4

\* C30: in the class engine 0 <= xp < xpToNext holds in every state reached
\* after an operation completes, over addXP calls, achievement unlocks, saves
\* and a load of a previously saved blob.
C30_XpBelowNext ==
    /\ 0 <= engineState.xp
    /\ engineState.xp < engineState.xpToNext

\* Within one page load the operations keep xp below xpToNext once it is:
\* only load() can bring an xp that is not.
XpKeptBelowNext ==
    [][(engineState.xp < engineState.xpToNext /\ booted) =>
           (0 <= engineState'.xp /\ engineState'.xp < engineState'.xpToNext)]_vars

\* Each operation that raises the level raises it by the level-ups of addXP:
\* one level-up takes the old xpToNext from xp and sets xpToNext to
\* floor(1.5 * xpToNext).
LevelUpStep ==
    [][(booted /\ booted' /\ engineState'.level = engineState.level + 1) =>
           /\ engineState'.xpToNext = (engineState.xpToNext * 3) \div 2
           /\ \E amount \in {10, 15, 25, 35} :
                  engineState'.xp = engineState.xp + amount - engineState.xpToNext]_vars

\* A loaded state whose xp is not below xpToNext
LoadedAboveNext ==
    /\ booted
    /\ opLog.op = "load"
    /\ engineState.level = 2
    /\ engineState.xp >= engineState.xpToNext

\* The 'Level Up!' requests of a sequence of toasts or requests
LevelToasts(seq) == Cardinality({i \in 1..Len(seq) : seq[i].title = "Level Up!"})

\* The amounts addXP is tried with: those of the handlers, that of the parkour
\* game, and one that gains more than one level
XpAmounts == {0, 10, 15, 25, 50, 400}

\* C35: addXP requests exactly one 'Level Up!' toast per level gained, and when
\* unlockAchievement causes a level-up the 'Level Up!' toast is requested
\* before the 'Achievement: <title>' toast of that unlock, and no request is
\* displayed before one made earlier.
C35_LevelUpBeforeAchievement ==
    /\ [](\A amount \in XpAmounts :
            LET a == AddXP(Nothing(engineState), amount)
            IN  /\ LevelToasts(a.toasts) = a.state.level - engineState.level
                /\ Len(a.toasts) = a.state.level - engineState.level)
    /\ [](\A j \in 1..Len(shownLog), k \in 1..Len(enqLog) :
            enqLog[k].id < shownLog[j].id => \E i \in 1..(j - 1) : shownLog[i] = enqLog[k])
    /\ [][(opLog'.n = opLog.n + 1 /\ opLog'.op # "reload") =>
            /\ LevelToasts(enqLog') - LevelToasts(enqLog)
                 = engineState'.level - engineState.level
            /\ (engineState'.unlockedAchievements # engineState.unlockedAchievements
                  /\ engineState'.level > engineState.level) =>
                 \A i, j \in (Len(enqLog) + 1)..Len(enqLog') :
                    (/\ enqLog'[i].title = "Level Up!"
                     /\ enqLog'[j].title \notin {"Level Up!", "Block Broken!"}) => i < j]_vars

\* downloadResume() at 90 XP has raised the level; the 'Level Up!' toast was
\* displayed and removed, and the achievement's toast is displayed after it.
C35_Witness ==
    /\ engineState.level = 2
    /\ "Download Resume" \in engineState.unlockedAchievements
    /\ Len(shownLog) = 2
    /\ shownLog[1].title = "Level Up!"
    /\ shownLog[2].title = "Achievement: Download Resume"
    /\ Len(removedLog) = 1

\* C36: in the class engine hotbarIndex is always an integer in 0..8: no
\* sequence of key presses, slot clicks, biome switches and wheel events takes
\* it outside; a wheel event on the game screen moves it by one, modulo 9.
C36_HotbarInRange ==
    /\ [](engineState.hotbarIndex \in 0..8)
    /\ [][(CallOf("wheel") /\ engineState.currentScreen = "game") =>
            engineState'.hotbarIndex = (engineState.hotbarIndex + opLog'.index) % 9]_vars

\* On the game screen the wheel has taken the index from the last slot round
\* to the first.
C36_Witness ==
    /\ opLog.op = "wheel"
    /\ opLog.index = 1
    /\ opLog.n = 3
    /\ engineState.currentScreen = "game"
    /\ engineState.hotbarIndex = 0

\* C37: in the class engine's parkour game completion is rewarded at most
\* once per page load: the first tick on which the player overlaps the end
\* platform sets the flag, gives the 50 XP and has 'Parkour Master' unlocked,
\* with at most one toast for it; every later such tick, and every tick
\* without overlap, changes nothing of the progress, the storage or the toasts.
C37_ParkourRewardedOnce ==
    /\ [](ToastsIn(enqLog, "Parkour Master") <= 1)
    /\ [](parkourCompleted => "Parkour Master" \in engineState.unlockedAchievements)
    /\ [][CallOf("updateParkour") =>
            IF opLog'.index = 1 /\ ~parkourCompleted
            THEN /\ parkourCompleted'
                 /\ engineState' =
                      UnlockAchievement(AddXP(Nothing(engineState), 50),
                                        "Parkour Master").state
                 /\ "Parkour Master" \in engineState'.unlockedAchievements
                 /\ ~threw'
            ELSE /\ parkourCompleted' = parkourCompleted
                 /\ engineState' = engineState
                 /\ storage' = storage
                 /\ esound' = esound
                 /\ UNCHANGED tvars]_vars

\* The course was completed, and the player overlapped the end platform on
\* two more ticks: the progress is that of one completion.
C37_Witness ==
    /\ opLog.op = "updateParkour"
    /\ opLog.index = 1
    /\ opLog.n = 3
    /\ parkourCompleted
    /\ engineState.xp = 75
    /\ engineState.level = 1
    /\ ToastsIn(enqLog, "Parkour Master") = 1
    /\ storage = JsonOf(SaveData(engineState))

-----------------------------------------------------------------------------
(* Properties of the sound managers *)

\* C20: play(name) never surfaces an error to its caller, whatever the name
\* and whatever the state of the sound manager: not yet initialised, its
\* initialisation failed, no audio backend, no buffer for the name.
C20_PlayNeverThrows == opLog.op = "play" => ~threw

\* C32: the module's SoundManager.init initialises audio at most once: over
\* any interleaving of init, play and toggle calls, those made while an earlier
\* init is still loading included, at most one AudioContext with its gain
\* chain is ever made.
C32_OneContext == msound.contexts <= 1

\* Once an init() has resolved no call makes another AudioContext.
NoContextOnceInited ==
    [][msound.inited => msound'.contexts = msound.contexts]_vars

\* A second AudioContext was made while the loads of the first were under way.
SecondContextWhileLoading ==
    /\ msound.contexts = 2
    /\ ~msound.inited
    /\ msound.waiting # {}

\* C33: while state.soundOn is false the module's SoundManager.play starts no
\* playback, in every initialisation state of the sound manager, also when
\* play is the call that triggers the first init: no step taken with soundOn
\* false starts a playback.
C33_MutedNoPlayback ==
    [][~msound.soundOn => msound'.plays = msound.plays]_vars

\* With the sound manager initialised and no init() under way, nothing plays
\* while soundOn is false.
MutedOnceInited ==
    [][(msound.inited /\ msound.waiting = {} /\ ~msound.soundOn) =>
           msound'.plays = msound.plays]_vars

\* The sound is off and no init() was called yet: play('click') triggers the
\* first init, and a playback starts when that init resolves.
MutedFirstPlayStarts ==
    /\ ~msound.soundOn /\ ~msound.inited /\ msound.waiting = {}
    /\ msound.contexts = 0
    /\ SoundInitDone(ModulePlay(msound, "click"), "click").plays = msound.plays + 1

====
